---- MODULE Spec2Model ----
\* Verification model of the DiViz single-page frontend (kos2nov/divizapi):
\* the session-token provider (auth-context.tsx), the page's backend calls
\* and the calendar Meet-code search (page.tsx).
EXTENDS Integers, Sequences, FiniteSets, TLC

\* ---------------------------------------------------------------------
\* Values
\* ---------------------------------------------------------------------

\* JavaScript null / undefined
Null == "null"

\* the empty string (falsy, like null)
EmptyStr == ""

\* identity tokens that the identity provider may hand out
Tokens == {"t1", "t2"}

\* authorization codes that may appear as ?code=
Codes == {"c1"}

\* values a fragment parameter can carry: absent, empty, or a token
ParamVals == {Null, EmptyStr} \cup Tokens

\* window.location.hash: no fragment at all, or a fragment parsed by
\* URLSearchParams into its access_token / id_token parameters
NoHash == [access_token |-> Null, id_token |-> Null, present |-> FALSE]

Hashes ==
  {NoHash} \cup [access_token : ParamVals, id_token : ParamVals, present : {TRUE}]

\* the visible URL: ?code= query parameter and fragment
Urls == [code : {Null} \cup Codes, hash : Hashes]

\* the two revisions of AuthProvider in the repository:
\*   "listen": frontend/app/auth-context.tsx (effect deps [token], hashchange listener)
\*   "mount" : the revision whose effect has deps [] and no listener
ProviderRevs == {"listen", "mount"}

\* the revisions of the Page in the repository:
\*   "basic"   : fetches /api/user once on mount and /api/meet/{code} from the
\*               form; Logout removes auth_token from sessionStorage
\*   "guarded" : frontend/app/page.tsx, which checks the token before its
\*               requests and takes logout from useAuth()
\*   "calendar": the tabbed page with the calendar search and the meetings
\*               repository; it takes logout from useAuth() as well
PageRevs == {"basic", "guarded", "calendar"}

\* the count of token extractions per page load saturates here
MaxExtractions == 2

VARIABLES
  providerRev,     \* which AuthProvider revision is running
  pageRev,         \* which Page revision is running
  token,           \* AuthProvider's React state: useState<string | null>(null)
  sessionStorage,  \* window.sessionStorage, by key
  url,             \* the visible URL (query code, fragment)
  mounted,         \* the provider's effect has run for this page load
  effectDue,       \* a token change has scheduled the effect again ([token] deps)
  extractions,     \* how often the token extraction ran in this page load
  href,            \* where window.location.href was sent ("app" = still on the page)
  thrown,          \* the exception the last handler raised, or Null
  fetches,         \* backend endpoints requested during this page load
  loadUrl,         \* the URL this page load started with
  lastOp,          \* the last operation and its argument
  loadedAfter      \* the operation that came right before this page load

authVars ==
  <<providerRev, pageRev, token, sessionStorage, url, mounted, effectDue,
    extractions, href, thrown, fetches, loadUrl, lastOp, loadedAfter>>

VARIABLES
  missingGoogleEnv, \* !GOOGLE_CLIENT_ID || !GOOGLE_API_KEY
  gapiPresent,      \* window.gapi is defined (api.js has loaded)
  calendars,        \* the user's calendars at Google: per calendar its event list
  sPc,              \* where the running searchMeetByCode call stands
  sInput,           \* its inputCode argument
  codeFromInput,    \* its normalized code
  calCount,         \* calendars.length as returned by calendarList.list
  calIdx,           \* the calendar the for loop is at
  searched,         \* the (calendar, event) pairs collected so far
  evLog,            \* the calendars an events.list request was issued for, in order
  evDone,           \* the events.list requests that settled, in order, with their outcome
  sResult           \* the value the call returned, or Null

VARIABLES
  gapiInited,        \* useState(false): gapi.client.init has resolved
  gisLoaded,         \* useState(false): the GIS script has loaded
  tokenClient,       \* tokenClientRef.current is set
  googleAccessToken, \* useState<string | null>(null)
  gapiToken,         \* gapi.client.getToken()?.access_token
  googleStored,      \* sessionStorage google_access_token
  googleExpired,     \* the token issued before this page load is past its expiry
  gPc,               \* where the running ensureGoogleAuth call stands
  gResolved,         \* the resolved flag of its promise executor
  gRequests,         \* the requestAccessToken calls of this ensureGoogleAuth run
  gTimer,            \* the 800 ms timer of this run
  gOther,            \* token requests pending from earlier runs and from Sign in
  listedWith,        \* the credential the last calendarList.list call was sent with
  tcCallback,        \* tokenClientRef.current.callback: the number of closures of
                     \* doRequest stacked on the callback of initTokenClient
  gFailed            \* a token request has ended in error_callback

callbackVars == <<tcCallback, gFailed>>

googleVars ==
  <<gapiInited, gisLoaded, tokenClient, googleAccessToken, gapiToken,
    googleStored, googleExpired, gPc, gResolved, gRequests, gTimer, gOther,
    listedWith, callbackVars>>

VARIABLES
  evStart,           \* start of the event MeetForm shows, as new Date(...) reads it
  evEnd,             \* its end
  durationStr,       \* the duration text MeetForm shows for it
  rowDuration,       \* the duration field of a meeting row, as Number(val) reads it
  rowDurationText    \* the text formatDurationMinutes makes of it

durationVars == <<evStart, evEnd, durationStr, rowDuration, rowDurationText>>

searchVars ==
  <<missingGoogleEnv, gapiPresent, calendars, sPc, sInput, codeFromInput,
    calCount, calIdx, searched, evLog, evDone, sResult, googleVars,
    durationVars>>

VARIABLES
  page,                  \* "up" when the Page component is rendered, "none" when left out
  activeTab,             \* useState<'user' | 'meet' | 'meetings'>('user')
  inflight,              \* backend requests that have not settled yet
  route,                 \* the Next.js route: "/" until router.push('/login')
  lastCall,              \* what the last step of a backend call did
  userSeen,              \* the token the fetchUser effect last ran with
  data,                  \* useState<UserResp | null>(null)
  error,                 \* useState<string | null>(null)
  loading,               \* useState(false)
  meetingsSeen,          \* <<activeTab, token>> the auto-load effect last ran with
  meetings,              \* useState<any[] | null>(null), by meeting code
  meetingsLoading,
  meetingsError,
  selectedMeetingCode,
  meetingDetails,
  meetingDetailsLoading,
  meetingDetailsError,
  detailsAnalyzeLoading,
  detailsAnalyzeError,
  deletingCode,
  deleteError

VARIABLES
  formResult,            \* MeetForm: useState<any>(null)
  formErr,               \* MeetForm: err
  formLoading,           \* MeetForm: loading
  submitTok,             \* the token the running onSubmit's closure captured
  transcript,
  transcriptLoading,
  transcriptError,
  importResult,
  importLoading,
  importError

formVars ==
  <<formResult, formErr, formLoading, submitTok, transcript, transcriptLoading,
    transcriptError, importResult, importLoading, importError>>

userVars == <<userSeen, data, error, loading>>

meetingsVars ==
  <<meetingsSeen, meetings, meetingsLoading, meetingsError, selectedMeetingCode,
    meetingDetails, meetingDetailsLoading, meetingDetailsError,
    detailsAnalyzeLoading, detailsAnalyzeError, deletingCode, deleteError>>

pageVars ==
  <<page, activeTab, inflight, route, lastCall, userVars, meetingsVars, formVars>>

\* everything the token provider's actions leave alone
nonAuthVars == <<searchVars, pageVars>>

\* everything the Meet-code search leaves alone
nonSearchVars == <<authVars, pageVars>>

vars == <<authVars, searchVars, pageVars>>

\* ---------------------------------------------------------------------
\* JavaScript helpers
\* ---------------------------------------------------------------------

\* truthiness of a string | null
Truthy(v) == v # Null /\ v # EmptyStr

\* a || b
OrElse_first(a, b) == a

OrElse(a, b) == IF Truthy(a) THEN a ELSE b

\* an operation, as remembered in lastOp and loadedAfter
Op(op, arg) == [op |-> op, arg |-> arg]

NoOp == Op("none", Null)

\* count one more extraction, up to the cap
Bump(n) == IF n < MaxExtractions THEN n + 1 ELSE n

\* ---------------------------------------------------------------------
\* Strings (JavaScript string methods used by the Meet-code search)
\* ---------------------------------------------------------------------

UpperCase == "ABCDEFGHIJKLMNOPQRSTUVWXYZ"

LowerCase == "abcdefghijklmnopqrstuvwxyz"

\* s.charAt(i - 1)
Char(s, i) == SubSeq(s, i, i)

\* position of character c in alphabet string a, 0 when absent
IndexIn(a, c) ==
  IF \E i \in 1..Len(a) : Char(a, i) = c
    THEN CHOOSE i \in 1..Len(a) : Char(a, i) = c
    ELSE 0

\* the characters of an alphabet string
CharsOf(a) == {Char(a, i) : i \in 1..Len(a)}

Letters == CharsOf(LowerCase) \cup CharsOf(UpperCase)

\* the lower-case letter of every upper-case letter
LowerOf == [c \in CharsOf(UpperCase) |-> Char(LowerCase, IndexIn(UpperCase, c))]

\* [a-z] under the i flag
IsLetter(c) == c \in Letters

\* [a-z\-] under the i flag
IsCodeChar(c) == IsLetter(c) \/ c = "-"

\* white space removed by String.prototype.trim
IsSpace(c) == c \in {" ", "\t", "\n"}

toLowerChar(c) == IF c \in DOMAIN LowerOf THEN LowerOf[c] ELSE c

RECURSIVE toLowerCase(_)
toLowerCase(s) ==
  IF Len(s) = 0 THEN "" ELSE toLowerChar(Char(s, 1)) \o toLowerCase(SubSeq(s, 2, Len(s)))

\* String.prototype.trim
trim(s) ==
  LET keep == {i \in 1..Len(s) : ~IsSpace(Char(s, i))}
  IN IF keep = {} THEN ""
     ELSE LET lo == CHOOSE i \in keep : \A j \in keep : i <= j
              hi == CHOOSE i \in keep : \A j \in keep : j <= i
          IN SubSeq(s, lo, hi)

\* the characters of s at positions i..j are all letters
LettersAt(s, i, j) == j <= Len(s) /\ \A k \in i..j : IsLetter(Char(s, k))

\* the text at position i has the case-insensitive prefix p (p in lower case)
HasPrefixAt(s, i, p) ==
  /\ i + Len(p) - 1 <= Len(s)
  /\ \A k \in 1..Len(p) : toLowerChar(Char(s, i + k - 1)) = Char(p, k)

\* String.prototype.includes
includes(hay, needle) ==
  \E i \in 1..(Len(hay) + 1) :
     /\ i + Len(needle) - 1 <= Len(hay)
     /\ SubSeq(hay, i, i + Len(needle) - 1) = needle

\* the smallest member of a non-empty set of positions
MinOf(S) == CHOOSE i \in S : \A j \in S : i <= j

\* ---------------------------------------------------------------------
\* AuthProvider
\* ---------------------------------------------------------------------

TOKEN_KEY == "auth_token"

\* params.get("access_token") || params.get("id_token")
fragmentToken_idFirst(hash) == OrElse(hash.id_token, hash.access_token)

fragmentToken(hash) == OrElse(hash.access_token, hash.id_token)

\* window.history.replaceState(null, "", window.location.pathname):
\* the visible URL keeps only the path
replaceState_keepHash(u) == [code |-> Null, hash |-> u.hash]

replaceState(u) == [code |-> Null, hash |-> NoHash]

\* the storage half of setToken: setItem when t is truthy, else removeItem
persist_never(ss, t) == ss

persist(ss, t) ==
  IF Truthy(t) THEN [ss EXCEPT ![TOKEN_KEY] = t]
  ELSE [ss EXCEPT ![TOKEN_KEY] = Null]

\* setToken(t): _setToken(t) and mirror into sessionStorage
setToken_memoryOnly(st, t) == [st EXCEPT !.token = t]

setToken(st, t) ==
  [st EXCEPT !.token = t, !.ss = persist(st.ss, t)]

\* handleTokenUpdate of the "listen" revision; st = [token, ss, url]
handleTokenUpdate_storedFirst(st) ==
  LET stored == st.ss[TOKEN_KEY]
      ft == fragmentToken(st.url.hash)
  IN IF Truthy(stored) /\ stored # st.token
       THEN [st EXCEPT !.token = stored]
       ELSE IF Truthy(ft)
              THEN [setToken(st, ft) EXCEPT !.url = replaceState(st.url)]
              ELSE st

handleTokenUpdate(st) ==
  LET ft == fragmentToken(st.url.hash)
      stored == st.ss[TOKEN_KEY]
  IN IF Truthy(ft)
       THEN [setToken(st, ft) EXCEPT !.url = replaceState(st.url)]
       ELSE IF Truthy(stored) /\ stored # st.token
              THEN [st EXCEPT !.token = stored]
              ELSE st

\* the effect body of the "mount" revision
mountEffect(st) ==
  LET ft == fragmentToken(st.url.hash)
      stored == st.ss[TOKEN_KEY]
  IN IF Truthy(ft)
       THEN [setToken(st, ft) EXCEPT !.url = replaceState(st.url)]
       ELSE IF Truthy(stored)
              THEN [st EXCEPT !.token = stored]
              ELSE st

\* the provider state the operators above work on
AuthState == [token |-> token, ss |-> sessionStorage, url |-> url]

\* the effect of the running revision
extract(st) ==
  IF providerRev = "listen" THEN handleTokenUpdate(st) ELSE mountEffect(st)

\* a token change re-schedules the effect only under deps [token]
Reschedules(old, new) == providerRev = "listen" /\ old # new

\* useEffect(() => { fetchUser() }, [fetchUser]): fetchUser is a new callback
\* whenever token changed
fetchUserDue == page = "up" /\ pageRev # "basic" /\ userSeen # token

\* useEffect(..., [activeTab, fetchMeetings]): due when the tab or token changed
autoLoadDue ==
  page = "up" /\ pageRev = "calendar" /\ meetingsSeen # <<activeTab, token>>

\* an effect of the Page is waiting to be flushed
PageEffectDue == fetchUserDue \/ autoLoadDue

\* the page is alive and no effect is waiting to be flushed
Idle == mounted /\ ~effectDue /\ href = "app" /\ ~PageEffectDue

\* write an AuthState back into the variables
Install(st) ==
  /\ token' = st.token
  /\ sessionStorage' = st.ss
  /\ url' = st.url
  /\ effectDue' = Reschedules(token, st.token)

\* Initialize: the effect's first run after the provider mounts
Initialize ==
  /\ ~mounted
  /\ href = "app"
  /\ Install(extract(AuthState))
  /\ mounted' = TRUE
  /\ extractions' = 1
  /\ thrown' = Null
  /\ lastOp' = Op("Initialize", Null)
  /\ UNCHANGED <<providerRev, pageRev, href, fetches, loadUrl, loadedAfter>>
  /\ UNCHANGED nonAuthVars

\* the effect runs again after a render in which token changed (deps [token])
EffectRerun ==
  /\ mounted
  /\ effectDue
  /\ ~PageEffectDue
  /\ href = "app"
  /\ Install(handleTokenUpdate(AuthState))
  /\ extractions' = Bump(extractions)
  /\ UNCHANGED <<providerRev, pageRev, mounted, href, thrown, fetches, loadUrl,
                 lastOp, loadedAfter>>
  /\ UNCHANGED nonAuthVars

\* Set: a consumer calls setToken(t) from the context
Set(t) ==
  /\ Idle
  /\ Install(setToken(AuthState, t))
  /\ thrown' = Null
  /\ lastOp' = Op("Set", t)
  /\ UNCHANGED <<providerRev, pageRev, mounted, extractions, href, fetches, loadUrl, loadedAfter>>
  /\ UNCHANGED nonAuthVars

\* the fragment of the visible URL changes (a redirect or the user edits it);
\* the "listen" revision runs handleTokenUpdate from its hashchange listener
HashChange(h) ==
  /\ Idle
  /\ h # url.hash
  /\ IF providerRev = "listen"
       THEN /\ Install(handleTokenUpdate([AuthState EXCEPT !.url.hash = h]))
            /\ extractions' = Bump(extractions)
       ELSE /\ url' = [url EXCEPT !.hash = h]
            /\ UNCHANGED <<token, sessionStorage, effectDue, extractions>>
  /\ thrown' = Null
  /\ lastOp' = Op("HashChange", Null)
  /\ UNCHANGED <<providerRev, pageRev, mounted, href, fetches, loadUrl, loadedAfter>>
  /\ UNCHANGED nonAuthVars

\* what useAuth() hands out: the context value has token and setToken only
AuthCtxFields_withLogout == {"token", "setToken", "logout"}

AuthCtxFields == {"token", "setToken"}

\* calling logout() destructured from useAuth(): a field the context does
\* not have is undefined, and calling it raises a TypeError
logoutCall(st) ==
  IF "logout" \in AuthCtxFields
    THEN [st |-> setToken(st, Null), thrown |-> Null]
    ELSE [st |-> st, thrown |-> "TypeError"]

\* the identity provider's logout page, which returns to the app
LogoutHref == "idpLogout"

\* Logout button of the header
Logout ==
  /\ Idle
  /\ \/ /\ pageRev = "basic"
        \* try { sessionStorage.removeItem('auth_token') } catch {}; location.href = ...
        /\ sessionStorage' = [sessionStorage EXCEPT ![TOKEN_KEY] = Null]
        /\ href' = LogoutHref
        /\ thrown' = Null
        /\ UNCHANGED <<token, url, effectDue>>
     \/ /\ pageRev # "basic"
        \* the button is rendered only when token is set
        /\ Truthy(token)
        /\ LET r == logoutCall(AuthState)
           IN /\ Install(r.st)
              /\ thrown' = r.thrown
              \* an exception leaves the handler before location.href is assigned
              /\ href' = IF r.thrown = Null THEN LogoutHref ELSE href
  /\ lastOp' = Op("Logout", token)
  /\ UNCHANGED <<providerRev, pageRev, mounted, extractions, fetches, loadUrl, loadedAfter>>
  /\ UNCHANGED nonAuthVars

\* a page load in the same tab (reload, or a redirect back to the app):
\* React state starts over, sessionStorage survives
PageLoad(u) ==
  /\ mounted
  /\ ~effectDue
  /\ token' = Null
  /\ url' = u
  /\ loadUrl' = u
  /\ mounted' = FALSE
  /\ effectDue' = FALSE
  /\ extractions' = 0
  /\ href' = "app"
  /\ thrown' = Null
  /\ fetches' = {}
  /\ lastOp' = Op("PageLoad", Null)
  /\ loadedAfter' = lastOp
  /\ UNCHANGED <<providerRev, pageRev, sessionStorage>>
  /\ UNCHANGED nonAuthVars

\* ---------------------------------------------------------------------
\* Page: backend calls
\* ---------------------------------------------------------------------

\* requests that can be in flight at the same time
MaxInflight == 2

\* meetings in the user's repository
MeetingCodes == {"m1", "m2"}

\* how a request settles: the status of the response, a rejected fetch
\* ("neterr"), or a 200 response whose body is not JSON ("badjson")
Outcomes == {"200", "204", "401", "404", "500", "502", "neterr", "badjson"}

\* res.ok
Ok(o) == o \in {"200", "204", "badjson"}

\* await res.json() resolves (a 204 and a proxy's 502 have no body)
HasJson(o) == o \in {"200", "401", "404", "500"}

\* await res.text()
TextOf(o) == IF o \in {"204", "502"} THEN EmptyStr ELSE "detail"

\* messages
NotAuthenticated == "Not authenticated"

NetError == "Failed to fetch"

JsonError == "Unexpected end of JSON input"

TypeErrorMsg == "logout is not a function"

\* bodies of GET /user: the user, or an error's detail
UserJson == "current_user"

ErrorJson == "detail"

\* meetings === null
NoList == {Null}

\* meetingDetails === null
NoDetails == [present |-> FALSE, meeting_code |-> Null, analysis |-> Null]

\* the body of GET /meetings/{code}
Details(code) == [present |-> TRUE, meeting_code |-> code, analysis |-> Null]

\* the synchronous part of a call: did the caller hold a token, was a request
\* issued, and which error message did the step set
Start(op, hadToken, issued, inline) ==
  [op |-> op, arg |-> Null, phase |-> "start", outcome |-> Null,
   hadToken |-> hadToken, issued |-> issued, pushed |-> FALSE,
   cleared |-> FALSE, inline |-> inline]

\* the continuation after the response to request r: did it navigate to
\* /login, are token and storage empty afterwards, and which error message did
\* it set; arg is the argument the request was made for
Settled(r, outcome, pushed, cleared, inline) ==
  [op |-> r.op, arg |-> r.arg, phase |-> "settle", outcome |-> outcome,
   hadToken |-> Truthy(r.tok), issued |-> FALSE, pushed |-> pushed,
   cleared |-> cleared, inline |-> inline]

\* a request of op that carried token tok, as far as Settled looks at it
Sent(op, tok) == [op |-> op, arg |-> Null, tok |-> tok]

NoCall == [Start("none", FALSE, FALSE, Null) EXCEPT !.phase = "none"]

\* the provider's variables except fetches
authCore ==
  <<providerRev, pageRev, token, sessionStorage, url, mounted, effectDue,
    extractions, href, thrown, loadUrl, lastOp, loadedAfter>>

\* the Page is rendered and has not navigated away
Alive == page = "up" /\ href = "app" /\ route = "/"

\* an event handler or a continuation can run
Ready == Idle /\ Alive

CanIssue == Cardinality(inflight) < MaxInflight

\* what the continuation of deleteMeeting reads from its closure: the
\* selection at the time of the click
Captured(op) == IF op = "deleteMeeting" THEN selectedMeetingCode ELSE Null

\* the requests in flight that are equal to r in everything but their number
Twins(r) ==
  {q \in inflight : q.op = r.op /\ q.arg = r.arg /\ q.tok = r.tok /\ q.sel = r.sel}

\* a request with the token it carries and what its closure captured; equal
\* requests in flight are numbered
Request(op, arg) ==
  LET r == [copy |-> 1, op |-> op, arg |-> arg, tok |-> token, sel |-> Captured(op)]
  IN [r EXCEPT !.copy = Cardinality(Twins(r)) + 1]

\* the requests that can settle next: of equal requests, one
Pending(op) ==
  {r \in inflight : r.op = op /\ r.copy = Cardinality(Twins(r))}

Endpoint ==
  [fetchUser |-> "GET /user",
   fetchMeetings |-> "GET /meetings",
   fetchMeetingDetails |-> "GET /meetings/{code}",
   deleteMeeting |-> "DELETE /meetings/{code}",
   analyzeSelectedMeeting |-> "POST /analyze/{code}",
   onSubmit |-> "GET /meet/{code}",
   fetchTranscript |-> "GET /fireflies/{code}",
   onAnalyze |-> "POST /meetings"]

\* fetch(...) up to the await
Issue(op, arg) ==
  /\ CanIssue
  /\ inflight' = inflight \cup {Request(op, arg)}
  /\ fetches' = fetches \cup {Endpoint[op]}

\* the 401 branch "logout(); router.push('/login'); return" of a continuation,
\* when called; the provider is left alone otherwise
HandlerLogout(called) ==
  LET r == IF called THEN logoutCall(AuthState)
           ELSE [st |-> AuthState, thrown |-> thrown]
  IN /\ Install(r.st)
     /\ thrown' = r.thrown
     /\ lastOp' = IF called THEN Op("Logout", token) ELSE lastOp
     /\ UNCHANGED <<providerRev, pageRev, mounted, extractions, href, fetches,
                    loadUrl, loadedAfter>>

\* logout() returned, so router.push('/login') is reached
Pushes(called) == called /\ logoutCall(AuthState).thrown = Null

\* token and storage are empty after the continuation
Cleared(called) ==
  LET st == IF called THEN logoutCall(AuthState).st ELSE AuthState
  IN st.token = Null /\ st.ss[TOKEN_KEY] = Null

\* a useState setter called with a value: the value replaces the state,
\* whichever call wrote it before
setState_keep(prev, value) == prev

setState(prev, value) == value

\* ---- fetchUser ----

\* fetchUser() of the "guarded" and "calendar" revisions
fetchUser ==
  IF ~Truthy(token)
    THEN /\ data' = Null
         /\ error' = NotAuthenticated
         /\ lastCall' = Start("fetchUser", FALSE, FALSE, NotAuthenticated)
         /\ UNCHANGED <<loading, inflight, fetches>>
    ELSE /\ loading' = TRUE
         /\ error' = Null
         /\ Issue("fetchUser", Null)
         /\ lastCall' = Start("fetchUser", TRUE, TRUE, Null)
         /\ UNCHANGED data

\* useEffect(() => { fetchUser() }, [fetchUser])
fetchUserEffect ==
  /\ fetchUserDue
  /\ Alive
  /\ userSeen' = token
  /\ fetchUser
  /\ UNCHANGED <<authCore, searchVars, formVars, page, activeTab, route, meetingsVars>>

\* Refresh button of the user panel
fetchUserClick ==
  /\ Ready
  /\ pageRev # "basic"
  /\ activeTab = "user"
  /\ ~loading
  /\ fetchUser
  /\ UNCHANGED <<authCore, searchVars, formVars, page, activeTab, route, userSeen, meetingsVars>>

\* the continuation of fetchUser after await fetch('/api/user')
fetchUserSettle ==
  /\ Ready
  /\ \E r \in Pending("fetchUser"), o \in Outcomes :
       /\ inflight' = inflight \ {r}
       /\ IF pageRev = "basic"
            THEN \* json = await res.json(); setData(json), whatever the status
                 LET caught == o = "neterr" \/ ~HasJson(o)
                     msg == IF o = "neterr" THEN NetError ELSE JsonError
                 IN /\ HandlerLogout(FALSE)
                    /\ data' = IF caught THEN data
                               ELSE IF o = "200" THEN UserJson ELSE ErrorJson
                    /\ error' = IF caught THEN msg ELSE error
                    /\ lastCall' = Settled(r, o, FALSE, Cleared(FALSE),
                                           IF caught THEN msg ELSE Null)
                    /\ UNCHANGED <<loading, route>>
            ELSE LET called == o = "401"
                     pushed == Pushes(called)
                     caught == ~pushed /\ o # "200"
                 IN /\ HandlerLogout(called)
                    /\ route' = IF pushed THEN "/login" ELSE route
                    /\ data' = IF pushed THEN data
                               ELSE IF caught THEN Null ELSE UserJson
                    /\ error' = IF caught THEN "Failed to load user data" ELSE error
                    /\ loading' = FALSE
                    /\ lastCall' = Settled(r, o, pushed, Cleared(called),
                                           IF caught THEN "Failed to load user data"
                                           ELSE Null)
  /\ UNCHANGED <<searchVars, formVars, page, activeTab, userSeen, meetingsVars>>

\* ---- the meetings tab ----

\* the tab buttons of the navigation
setActiveTab(tab) ==
  /\ Ready
  /\ pageRev = "calendar"
  /\ tab # activeTab
  /\ activeTab' = tab
  /\ UNCHANGED <<authVars, searchVars, formVars, page, inflight, route, lastCall, userVars,
                 meetingsVars>>

\* fetchMeetings()
fetchMeetings ==
  IF ~Truthy(token)
    THEN /\ meetings' = NoList
         /\ meetingsError' = NotAuthenticated
         /\ lastCall' = Start("fetchMeetings", FALSE, FALSE, NotAuthenticated)
         /\ UNCHANGED <<meetingsLoading, inflight, fetches>>
    ELSE /\ meetingsLoading' = TRUE
         /\ meetingsError' = Null
         /\ Issue("fetchMeetings", Null)
         /\ lastCall' = Start("fetchMeetings", TRUE, TRUE, Null)
         /\ UNCHANGED meetings

\* useEffect(() => { if (activeTab === 'meetings') fetchMeetings() },
\*           [activeTab, fetchMeetings]); it follows the fetchUser effect
autoLoadEffect ==
  /\ autoLoadDue
  /\ ~fetchUserDue
  /\ Alive
  /\ meetingsSeen' = <<activeTab, token>>
  /\ IF activeTab = "meetings"
       THEN fetchMeetings
       ELSE UNCHANGED <<meetings, meetingsLoading, meetingsError, inflight,
                        fetches, lastCall>>
  /\ UNCHANGED <<authCore, searchVars, formVars, page, activeTab, route, userVars,
                 selectedMeetingCode, meetingDetails, meetingDetailsLoading,
                 meetingDetailsError, detailsAnalyzeLoading, detailsAnalyzeError,
                 deletingCode, deleteError>>

\* Refresh button of the meetings tab
fetchMeetingsClick ==
  /\ Ready
  /\ activeTab = "meetings"
  /\ ~meetingsLoading
  /\ fetchMeetings
  /\ UNCHANGED <<authCore, searchVars, formVars, page, activeTab, route, userVars,
                 meetingsSeen, selectedMeetingCode, meetingDetails,
                 meetingDetailsLoading, meetingDetailsError,
                 detailsAnalyzeLoading, detailsAnalyzeError, deletingCode,
                 deleteError>>

\* the continuation of fetchMeetings after await fetch('/api/meetings')
fetchMeetingsSettle ==
  /\ Ready
  /\ \E r \in Pending("fetchMeetings"), o \in Outcomes :
       LET called == o = "401"
           pushed == Pushes(called)
           caught == ~pushed /\ o # "200"
           msg == IF o = "neterr" THEN NetError
                  ELSE IF o = "401" THEN TypeErrorMsg
                  ELSE IF ~Ok(o) THEN "Failed to fetch meetings"
                  ELSE JsonError
       IN /\ inflight' = inflight \ {r}
          /\ HandlerLogout(called)
          /\ route' = IF pushed THEN "/login" ELSE route
          /\ \E json \in (IF o = "200" THEN SUBSET MeetingCodes ELSE {NoList}) :
               meetings' = IF pushed THEN meetings
                           ELSE setState(meetings, IF caught THEN NoList ELSE json)
          /\ meetingsError' = IF caught THEN msg ELSE meetingsError
          /\ meetingsLoading' = FALSE
          /\ lastCall' = Settled(r, o, pushed, Cleared(called),
                                 IF caught THEN msg ELSE Null)
  /\ UNCHANGED <<searchVars, formVars, page, activeTab, userVars, meetingsSeen,
                 selectedMeetingCode, meetingDetails, meetingDetailsLoading,
                 meetingDetailsError, detailsAnalyzeLoading, detailsAnalyzeError,
                 deletingCode, deleteError>>

\* the rows of the meetings table
Rows == IF activeTab = "meetings" /\ meetings # NoList THEN meetings ELSE {}

\* a click on a row's meeting code: fetchMeetingDetails(m.meeting_code)
fetchMeetingDetailsClick(meetingCode) ==
  /\ Ready
  /\ meetingCode \in Rows
  /\ IF ~Truthy(token)
       THEN /\ meetingDetails' = NoDetails
            /\ meetingDetailsError' = NotAuthenticated
            /\ lastCall' = Start("fetchMeetingDetails", FALSE, FALSE, NotAuthenticated)
            /\ UNCHANGED <<selectedMeetingCode, meetingDetailsLoading, inflight, fetches>>
       ELSE /\ selectedMeetingCode' = meetingCode
            /\ meetingDetailsLoading' = TRUE
            /\ meetingDetailsError' = Null
            /\ Issue("fetchMeetingDetails", meetingCode)
            /\ lastCall' = Start("fetchMeetingDetails", TRUE, TRUE, Null)
            /\ UNCHANGED meetingDetails
  /\ UNCHANGED <<authCore, searchVars, formVars, page, activeTab, route, userVars,
                 meetingsSeen, meetings, meetingsLoading, meetingsError,
                 detailsAnalyzeLoading, detailsAnalyzeError, deletingCode,
                 deleteError>>

\* the continuation of fetchMeetingDetails after await fetch
fetchMeetingDetailsSettle ==
  /\ Ready
  /\ \E r \in Pending("fetchMeetingDetails"), o \in Outcomes :
       LET called == o = "401"
           pushed == Pushes(called)
           notFound == o = "404"
           caught == ~pushed /\ ~notFound /\ o # "200"
           msg == IF o = "neterr" THEN NetError
                  ELSE IF o = "401" THEN TypeErrorMsg
                  ELSE IF notFound THEN "Meeting not found"
                  ELSE IF ~Ok(o) THEN "Failed to fetch meeting details"
                  ELSE JsonError
           failed == caught \/ notFound
       IN /\ inflight' = inflight \ {r}
          /\ HandlerLogout(called)
          /\ route' = IF pushed THEN "/login" ELSE route
          /\ meetingDetails' = IF pushed THEN meetingDetails
                               ELSE setState(meetingDetails,
                                             IF failed THEN NoDetails
                                             ELSE Details(r.arg))
          /\ meetingDetailsError' = IF failed THEN msg ELSE meetingDetailsError
          /\ meetingDetailsLoading' = FALSE
          /\ lastCall' = Settled(r, o, pushed, Cleared(called),
                                 IF failed THEN msg ELSE Null)
  /\ UNCHANGED <<searchVars, formVars, page, activeTab, userVars, meetingsSeen, meetings,
                 meetingsLoading, meetingsError, selectedMeetingCode,
                 detailsAnalyzeLoading, detailsAnalyzeError, deletingCode,
                 deleteError>>

\* if (deletingCode) return
deleteBusy_never == FALSE

deleteBusy == Truthy(deletingCode)

\* Delete button of a row: deleteMeeting(m.meeting_code); ok is the answer to
\* window.confirm
deleteMeetingClick(meetingCode, ok) ==
  /\ Ready
  /\ meetingCode \in Rows
  /\ deletingCode # meetingCode
  /\ IF ~Truthy(token)
       THEN /\ meetingsError' = NotAuthenticated
            /\ lastCall' = Start("deleteMeeting", FALSE, FALSE, NotAuthenticated)
            /\ UNCHANGED <<deleteError, deletingCode, inflight, fetches>>
       ELSE IF deleteBusy \/ ~ok
         THEN /\ lastCall' = Start("deleteMeeting", TRUE, FALSE, Null)
              /\ UNCHANGED <<meetingsError, deleteError, deletingCode, inflight, fetches>>
         ELSE /\ deleteError' = Null
              /\ deletingCode' = meetingCode
              /\ Issue("deleteMeeting", meetingCode)
              /\ lastCall' = Start("deleteMeeting", TRUE, TRUE, Null)
              /\ UNCHANGED meetingsError
  /\ UNCHANGED <<authCore, searchVars, formVars, page, activeTab, route, userVars,
                 meetingsSeen, meetings, meetingsLoading, selectedMeetingCode,
                 meetingDetails, meetingDetailsLoading, meetingDetailsError,
                 detailsAnalyzeLoading, detailsAnalyzeError>>

\* the continuation of deleteMeeting after await fetch
deleteMeetingSettle ==
  /\ Ready
  /\ \E r \in Pending("deleteMeeting"), o \in Outcomes :
       LET called == o = "401"
           pushed == Pushes(called)
           gone == o \in {"204", "404"}
           caught == ~pushed /\ ~gone
           msg == IF o = "neterr" THEN NetError
                  ELSE IF o = "401" THEN TypeErrorMsg
                  ELSE OrElse(TextOf(o), "Failed to delete meeting")
           viewing == gone /\ r.sel = r.arg
       IN /\ inflight' = inflight \ {r}
          /\ HandlerLogout(called)
          /\ route' = IF pushed THEN "/login" ELSE route
          /\ meetings' = IF gone /\ meetings # NoList
                           THEN meetings \ {r.arg} ELSE meetings
          /\ selectedMeetingCode' = IF viewing THEN Null ELSE selectedMeetingCode
          /\ meetingDetails' = IF viewing THEN NoDetails ELSE meetingDetails
          /\ meetingDetailsError' = IF viewing THEN Null ELSE meetingDetailsError
          /\ detailsAnalyzeError' = IF viewing THEN Null ELSE detailsAnalyzeError
          /\ deleteError' = IF caught THEN msg ELSE deleteError
          /\ deletingCode' = Null
          /\ lastCall' = Settled(r, o, pushed, Cleared(called),
                                 IF caught THEN msg ELSE Null)
  /\ UNCHANGED <<searchVars, formVars, page, activeTab, userVars, meetingsSeen,
                 meetingsLoading, meetingsError, meetingDetailsLoading,
                 detailsAnalyzeLoading>>

\* the details panel is rendered
PanelShown ==
  /\ activeTab = "meetings"
  /\ \/ Truthy(selectedMeetingCode)
     \/ meetingDetailsLoading
     \/ meetingDetails.present
     \/ Truthy(meetingDetailsError)

\* Analyze button of the details panel: analyzeSelectedMeeting()
analyzeSelectedMeeting ==
  /\ Ready
  /\ PanelShown
  /\ meetingDetails.present
  /\ ~detailsAnalyzeLoading
  /\ IF ~Truthy(token)
       THEN \* if (!token || !meetingDetails) return
            /\ lastCall' = Start("analyzeSelectedMeeting", FALSE, FALSE, Null)
            /\ UNCHANGED <<detailsAnalyzeLoading, detailsAnalyzeError, inflight, fetches>>
       ELSE /\ detailsAnalyzeLoading' = TRUE
            /\ detailsAnalyzeError' = Null
            /\ Issue("analyzeSelectedMeeting",
                     OrElse(meetingDetails.meeting_code,
                            OrElse(selectedMeetingCode, EmptyStr)))
            /\ lastCall' = Start("analyzeSelectedMeeting", TRUE, TRUE, Null)
  /\ UNCHANGED <<authCore, searchVars, formVars, page, activeTab, route, userVars,
                 meetingsSeen, meetings, meetingsLoading, meetingsError,
                 selectedMeetingCode, meetingDetails, meetingDetailsLoading,
                 meetingDetailsError, deletingCode, deleteError>>

\* the continuation of analyzeSelectedMeeting after await fetch
analyzeSettle ==
  /\ Ready
  /\ \E r \in Pending("analyzeSelectedMeeting"), o \in Outcomes :
       LET caught == o # "200"
           msg == IF o = "neterr" THEN NetError
                  ELSE IF ~Ok(o) THEN OrElse(TextOf(o), "Failed to analyze meeting")
                  ELSE JsonError
       IN /\ inflight' = inflight \ {r}
          /\ HandlerLogout(FALSE)
          \* setMeetingDetails(prev => ({ ...(prev || {}), analysis }))
          /\ meetingDetails' = IF caught THEN meetingDetails
                               ELSE [meetingDetails EXCEPT !.present = TRUE,
                                                           !.analysis = r.arg]
          /\ detailsAnalyzeError' = IF caught THEN msg ELSE detailsAnalyzeError
          /\ detailsAnalyzeLoading' = FALSE
          /\ lastCall' = Settled(r, o, FALSE, Cleared(FALSE),
                                 IF caught THEN msg ELSE Null)
  /\ UNCHANGED <<searchVars, formVars, page, activeTab, route, userVars, meetingsSeen,
                 meetings, meetingsLoading, meetingsError, selectedMeetingCode,
                 meetingDetailsLoading, meetingDetailsError, deletingCode,
                 deleteError>>

\* Close button of the details panel
closeDetails ==
  /\ Ready
  /\ PanelShown
  /\ selectedMeetingCode' = Null
  /\ meetingDetails' = NoDetails
  /\ meetingDetailsError' = Null
  /\ detailsAnalyzeError' = Null
  /\ UNCHANGED <<authVars, searchVars, formVars, page, activeTab, inflight, route, lastCall,
                 userVars, meetingsSeen, meetings, meetingsLoading, meetingsError,
                 meetingDetailsLoading, detailsAnalyzeLoading, deletingCode,
                 deleteError>>

\* ---- states of the Page ----

\* the meetings tab before anything was loaded
MeetingsBlank ==
  /\ meetings = NoList
  /\ meetingsLoading = FALSE
  /\ meetingsError = Null
  /\ selectedMeetingCode = Null
  /\ meetingDetails = NoDetails
  /\ meetingDetailsLoading = FALSE
  /\ meetingDetailsError = Null
  /\ detailsAnalyzeLoading = FALSE
  /\ detailsAnalyzeError = Null
  /\ deletingCode = Null
  /\ deleteError = Null

\* MeetForm's result === null
NoResult ==
  [kind |-> "null", hasEvent |-> FALSE, meetUrl |-> Null, normalizedCode |-> Null]

\* MeetForm before anything was submitted
FormBlank ==
  /\ formResult = NoResult
  /\ formErr = Null
  /\ formLoading = FALSE
  /\ submitTok = Null
  /\ transcript = Null
  /\ transcriptLoading = FALSE
  /\ transcriptError = Null
  /\ importResult = Null
  /\ importLoading = FALSE
  /\ importError = Null

\* the Page is not part of the model
PageAbsent ==
  /\ page = "none"
  /\ activeTab = "user"
  /\ inflight = {}
  /\ route = "/"
  /\ lastCall = NoCall
  /\ userSeen = Null
  /\ data = Null
  /\ error = Null
  /\ loading = FALSE
  /\ meetingsSeen = <<"user", Null>>
  /\ MeetingsBlank
  /\ FormBlank

\* the Page after its first render and its own effects, which run before the
\* provider's effect: the oldest revision has requested /api/user without a
\* token, the later ones have set 'Not authenticated'
PageMounted ==
  /\ page = "up"
  /\ activeTab = "user"
  /\ route = "/"
  /\ userSeen = Null
  /\ data = Null
  /\ loading = FALSE
  /\ meetingsSeen = <<"user", Null>>
  /\ MeetingsBlank
  /\ FormBlank
  /\ IF pageRev = "basic"
       THEN /\ inflight = {[copy |-> 1, op |-> "fetchUser", arg |-> Null,
                            tok |-> Null, sel |-> Null]}
            /\ fetches = {Endpoint["fetchUser"]}
            /\ error = Null
            /\ lastCall = Start("fetchUser", FALSE, TRUE, Null)
       ELSE /\ inflight = {}
            /\ fetches = {}
            /\ error = NotAuthenticated
            /\ lastCall = Start("fetchUser", FALSE, FALSE, NotAuthenticated)

\* ---------------------------------------------------------------------
\* Meet-code search (Page.searchMeetByCode)
\* ---------------------------------------------------------------------

\* number of calendars in the modelled account
MaxCalendars == 2

\* position p of s starts three letters, a dash, mid letters, a dash and
\* three letters
ShapeAt(s, p, mid) ==
  /\ p + 7 + mid <= Len(s)
  /\ LettersAt(s, p, p + 2)
  /\ Char(s, p + 3) = "-"
  /\ LettersAt(s, p + 4, p + 3 + mid)
  /\ Char(s, p + 4 + mid) = "-"
  /\ LettersAt(s, p + 5 + mid, p + 7 + mid)

\* code.match(/([a-z]{3}-[a-z]{mid}-[a-z]{3})/i): the leftmost match, or Null
matchShape(s, mid) ==
  LET hits == {p \in 1..Len(s) : ShapeAt(s, p, mid)}
  IN IF hits = {} THEN Null
     ELSE SubSeq(s, MinOf(hits), MinOf(hits) + 7 + mid)

\* the codeFromInput closure: trim, take the 3-4-3 match, else the 3-3-3
\* match, else the whole trimmed input; lower-case
normalize_fourOnly(inputCode) ==
  LET code == trim(IF inputCode = Null THEN "" ELSE inputCode)
      m == matchShape(code, 4)
  IN toLowerCase(IF m # Null THEN m ELSE code)

normalize(inputCode) ==
  LET code == trim(IF inputCode = Null THEN "" ELSE inputCode)
      m4 == matchShape(code, 4)
      m == IF m4 # Null THEN m4 ELSE matchShape(code, 3)
  IN toLowerCase(IF m # Null THEN m ELSE code)

\* the end of the run of [a-z\-] characters that starts at position i
RunEnd(s, i) ==
  LET stops == {j \in i..Len(s) : ~IsCodeChar(Char(s, j))}
  IN IF stops = {} THEN Len(s) ELSE MinOf(stops) - 1

MeetHost == "meet.google.com/"

LookupDir == "lookup/"

\* uri.match(/meet\.google\.com\/(?:lookup\/)?([a-z\-]+)/i) at position p:
\* the captured group, or Null when the pattern does not match there
captureAt(s, p) ==
  LET q == p + Len(MeetHost)
      r == q + Len(LookupDir)
  IN IF ~HasPrefixAt(s, p, MeetHost) THEN Null
     ELSE IF HasPrefixAt(s, q, LookupDir) /\ r <= Len(s) /\ IsCodeChar(Char(s, r))
            THEN SubSeq(s, r, RunEnd(s, r))
          ELSE IF q <= Len(s) /\ IsCodeChar(Char(s, q))
            THEN SubSeq(s, q, RunEnd(s, q))
          ELSE Null

\* group 1 of uri.match(/meet\.google\.com\/(?:lookup\/)?([a-z\-]+)/i), or
\* Null when there is no match
matchMeetCode(uri) ==
  LET hits == {p \in 1..Len(uri) : captureAt(uri, p) # Null}
  IN IF hits = {} THEN Null ELSE captureAt(uri, MinOf(hits))

\* extractCode(uri)
extractCode(uri) ==
  IF ~Truthy(uri) THEN Null
  ELSE LET m == matchMeetCode(uri)
       IN IF m = Null THEN Null ELSE toLowerCase(m)

\* the predicate of searched.filter(...)
isMatch_linkOnly(event, code) ==
  LET linkCode == extractCode(event.hangoutLink)
  IN Truthy(linkCode) /\ includes(linkCode, code)

isMatch_prefix(event, code) ==
  LET linkCode == extractCode(event.hangoutLink)
      ep == event.entryPoints
      epCodes == {c \in {extractCode(ep[i]) : i \in 1..Len(ep)} : Truthy(c)}
  IN \/ Truthy(linkCode) /\ HasPrefixAt(linkCode, 1, code)
     \/ \E c \in epCodes : HasPrefixAt(c, 1, code)

isMatch(event, code) ==
  LET linkCode == extractCode(event.hangoutLink)
      ep == event.entryPoints
      epCodes == {c \in {extractCode(ep[i]) : i \in 1..Len(ep)} : Truthy(c)}
  IN \/ Truthy(linkCode) /\ includes(linkCode, code)
     \/ \E c \in epCodes : includes(c, code)

\* Array.prototype.filter: the members that satisfy isMatch, in order
RECURSIVE filterMatches(_, _)
filterMatches(pairs, code) ==
  IF pairs = <<>> THEN <<>>
  ELSE LET rest == filterMatches(Tail(pairs), code)
       IN IF isMatch(Head(pairs).event, code) THEN <<Head(pairs)>> \o rest ELSE rest

\* the object searchMeetByCode returns
searchResult_readOnly(inputCode, code, pairs, n) ==
  [input |-> inputCode,
   normalizedCode |-> code,
   matches |-> filterMatches(pairs, code),
   searchedCalendars |-> Cardinality({pairs[i].calendar : i \in 1..Len(pairs)})]

searchResult(inputCode, code, pairs, n) ==
  [input |-> inputCode,
   normalizedCode |-> code,
   matches |-> filterMatches(pairs, code),
   searchedCalendars |-> n]

\* conference links found on calendar events
UriPool ==
  [plain  |-> "https://meet.google.com/abc-defg-hij",
   lookup |-> "https://MEET.google.com/lookup/XYZ-defg-hij?authuser=0",
   zoom   |-> "https://zoom.us/j/meet-now",
   phone  |-> "tel:+1-555-0100"]

\* events as events.list returns them: a Meet link on the event, a Meet link
\* (upper case, lookup form) on a later entry point only, and no Meet link
EvPlain == [hangoutLink |-> UriPool.plain, entryPoints |-> <<>>]

EvLookup == [hangoutLink |-> Null, entryPoints |-> <<UriPool.phone, UriPool.lookup>>]

EvOther == [hangoutLink |-> UriPool.zoom, entryPoints |-> <<Null, UriPool.zoom>>]

\* the event lists a calendar of the modelled account can have
EventLists ==
  { <<>>, <<EvLookup>>, <<EvOther, EvPlain>>, <<EvPlain, EvLookup, EvOther>> }

\* accounts of up to MaxCalendars calendars
RECURSIVE AccountsOfLen(_)
AccountsOfLen(n) ==
  IF n = 0 THEN {<<>>}
  ELSE {Append(a, l) : a \in AccountsOfLen(n - 1), l \in EventLists}

Accounts == UNION {AccountsOfLen(n) : n \in 0..MaxCalendars}

\* what a user types into the Meet form
TypedInputs ==
  {"defg", "XYZ-DEFG-HIJ", "Check https://meet.google.com/abc-defg-hij now",
   "bc-d", " "}

\* inputs assembled from parts, to exercise the normalization
PartPre == {"", " Check https://meet.google.com/", "x"}

PartA == {"abc", "AB", "wxyz"}

PartDash == {"-", ""}

PartB == {"def", "DEFG", "defgh", "d3f"}

PartC == {"hij", "hij-klmn-opq"}

PartPost == {" now ", "z"}

AssembledInputs ==
  {pre \o a \o d1 \o b \o d2 \o c \o post :
     pre \in PartPre, a \in PartA, d1 \in PartDash, b \in PartB,
     d2 \in PartDash, c \in PartC, post \in PartPost}

\* the event the listing of calendar k returned at position i, tagged with
\* its place so that equal-looking events stay distinct
EventOf(k, i) ==
  [id |-> <<k, i>>,
   hangoutLink |-> calendars[k][i].hangoutLink,
   entryPoints |-> calendars[k][i].entryPoints]

\* for (const ev of items) searched.push({ calendar: cal, event: ev })
push_front(list, items) == items \o list

push(list, items) == list \o items

\* await gapi.client.calendar.events.list({ calendarId: cal.id, ... }): one
\* request, for the calendar the loop is at
requestEvents_all(log, k) ==
  log \o [i \in 1..(Len(calendars) - Len(log)) |-> Len(log) + i]

requestEvents(log, k) == Append(log, k)

\* ---------------------------------------------------------------------
\* Google credential (Page: gapi, GIS token client, ensureGoogleAuth)
\* ---------------------------------------------------------------------

\* token requests that can be pending besides those of the running
\* ensureGoogleAuth call
MaxOther == 1

\* closures of doRequest that can be stacked in the token client's callback
MaxWrappers == 4

\* the access token issued before this page load, and the one a token
\* request of this page load is answered with
OldToken == "g0"

NewToken == "g1"

\* exp > Date.now() for the stored token: the stored expiry is the token's
\* expiry less a buffer
StoredFresh == googleStored = NewToken \/ (googleStored = OldToken /\ ~googleExpired)

\* token is past its expiry
PastExpiry(tok) == tok = OldToken /\ googleExpired

NoCredential == [sent |-> FALSE, tok |-> Null, expired |-> FALSE]

\* a requestAccessToken call: its prompt, where it was made (the start of
\* the executor, the catch block, the timer), what became of it, and what
\* had become of the silent request when it was made
TokenRequest(prompt, via, status, silentWas) ==
  [prompt |-> prompt, via |-> via, status |-> status, silentWas |-> silentWas]

PendingRequests == {i \in 1..Len(gRequests) : gRequests[i].status = "pending"}

SilentStatus == IF gRequests = <<>> THEN "none" ELSE gRequests[1].status

\* the hydration effect and the stored-token branch of ensureGoogleAuth:
\* token && exp && exp > Date.now()
Hydratable == Truthy(googleStored) /\ StoredFresh

\* the token-client effect: runs when gisLoaded and gapiInited, once
tokenClientEffect(gis, inited) ==
  tokenClient' = (tokenClient \/ (gis /\ inited /\ ~missingGoogleEnv))

\* api.js has loaded: window.gapi exists, and gapi.client.init is started
\* (unless the configuration is missing)
GapiLoaded ==
  /\ ~gapiPresent
  /\ gapiPresent' = TRUE
  /\ UNCHANGED <<durationVars, missingGoogleEnv, calendars, sPc, sInput, codeFromInput,
                 calCount, calIdx, searched, evLog, evDone, sResult, googleVars>>
  /\ UNCHANGED nonSearchVars

\* gapi.client.init resolves: setGapiInited(true); the effects that depend
\* on gapiInited run: the token client is created when GIS is there, and an
\* unexpired stored token is taken into state and the gapi client
GapiInit ==
  /\ gapiPresent
  /\ ~gapiInited
  /\ ~missingGoogleEnv
  /\ gapiInited' = TRUE
  /\ tokenClientEffect(gisLoaded, TRUE)
  /\ IF Hydratable
       THEN /\ googleAccessToken' = googleStored
            /\ gapiToken' = googleStored
       ELSE UNCHANGED <<googleAccessToken, gapiToken>>
  /\ UNCHANGED <<gisLoaded, googleStored, googleExpired, gPc, gResolved,
                 gRequests, gTimer, gOther, listedWith>>
  /\ UNCHANGED <<durationVars, missingGoogleEnv, gapiPresent, calendars, sPc, sInput,
                 codeFromInput, calCount, calIdx, searched, evLog, evDone, sResult>>
  /\ UNCHANGED callbackVars
  /\ UNCHANGED nonSearchVars

\* the GIS script has loaded: setGisLoaded(true) and the token-client effect
GisLoaded ==
  /\ ~gisLoaded
  /\ gisLoaded' = TRUE
  /\ tokenClientEffect(TRUE, gapiInited)
  /\ UNCHANGED <<gapiInited, googleAccessToken, gapiToken, googleStored,
                 googleExpired, gPc, gResolved, gRequests, gTimer, gOther,
                 listedWith>>
  /\ UNCHANGED <<durationVars, missingGoogleEnv, gapiPresent, calendars, sPc, sInput,
                 codeFromInput, calCount, calIdx, searched, evLog, evDone, sResult>>
  /\ UNCHANGED callbackVars
  /\ UNCHANGED nonSearchVars

\* time passes the expiry of the token issued before this page load
Expire ==
  /\ ~googleExpired
  /\ OldToken \in {googleAccessToken, gapiToken, googleStored}
  /\ googleExpired' = TRUE
  /\ UNCHANGED <<gapiInited, gisLoaded, tokenClient, googleAccessToken,
                 gapiToken, googleStored, gPc, gResolved, gRequests, gTimer,
                 gOther, listedWith>>
  /\ UNCHANGED <<durationVars, missingGoogleEnv, gapiPresent, calendars, sPc, sInput,
                 codeFromInput, calCount, calIdx, searched, evLog, evDone, sResult>>
  /\ UNCHANGED callbackVars
  /\ UNCHANGED nonSearchVars

\* the Google button: signInGoogle requests a token outside ensureGoogleAuth
signInGoogle ==
  /\ ~missingGoogleEnv
  /\ tokenClient
  /\ gOther < MaxOther
  /\ gOther' = gOther + 1
  /\ UNCHANGED <<gapiInited, gisLoaded, tokenClient, googleAccessToken,
                 gapiToken, googleStored, googleExpired, gPc, gResolved,
                 gRequests, gTimer, listedWith>>
  /\ UNCHANGED <<durationVars, missingGoogleEnv, gapiPresent, calendars, sPc, sInput,
                 codeFromInput, calCount, calIdx, searched, evLog, evDone, sResult>>
  /\ UNCHANGED callbackVars
  /\ UNCHANGED nonSearchVars

\* the token client's callback is run with a response: an access token, if
\* there is one, goes to state, the gapi client and sessionStorage; the
\* closure that ensureGoogleAuth installed puts back the callback it
\* replaced and resolves its promise
tokenCallback(withToken) ==
  /\ IF withToken
       THEN /\ googleAccessToken' = NewToken
            /\ gapiToken' = NewToken
            /\ googleStored' = NewToken
       ELSE UNCHANGED <<googleAccessToken, gapiToken, googleStored>>
  /\ gResolved' = (gResolved \/ gPc = "waiting")
  /\ gPc' = IF gPc = "waiting" THEN "returned" ELSE gPc
  \* finally { tc.callback = prevCb }; the callback of initTokenClient stays
  /\ tcCallback' = IF tcCallback > 0 THEN tcCallback - 1 ELSE 0
  /\ UNCHANGED gFailed

\* a token request of the running ensureGoogleAuth call is answered
GoogleAnswer ==
  /\ \E i \in PendingRequests, withToken \in BOOLEAN :
       /\ gRequests' = [gRequests EXCEPT ![i].status = "answered"]
       /\ tokenCallback(withToken)
  /\ UNCHANGED <<gapiInited, gisLoaded, tokenClient, googleExpired, gTimer,
                 gOther, listedWith>>
  /\ UNCHANGED <<durationVars, missingGoogleEnv, gapiPresent, calendars, sPc, sInput,
                 codeFromInput, calCount, calIdx, searched, evLog, evDone, sResult>>
  /\ UNCHANGED nonSearchVars

\* a token request of an earlier run, or of Sign in, is answered
OtherAnswer ==
  /\ gOther > 0
  /\ gOther' = gOther - 1
  /\ \E withToken \in BOOLEAN : tokenCallback(withToken)
  /\ UNCHANGED <<gapiInited, gisLoaded, tokenClient, googleExpired, gRequests,
                 gTimer, listedWith>>
  /\ UNCHANGED <<durationVars, missingGoogleEnv, gapiPresent, calendars, sPc, sInput,
                 codeFromInput, calCount, calIdx, searched, evLog, evDone, sResult>>
  /\ UNCHANGED nonSearchVars

\* a token request ends in error_callback (the popup was closed or could not
\* be opened): the error is logged and the callback is not run
GoogleError ==
  /\ \/ /\ \E i \in PendingRequests :
              gRequests' = [gRequests EXCEPT ![i].status = "failed"]
        /\ UNCHANGED gOther
     \/ /\ gOther > 0
        /\ gOther' = gOther - 1
        /\ UNCHANGED gRequests
  /\ gFailed' = TRUE
  /\ UNCHANGED <<gapiInited, gisLoaded, tokenClient, googleAccessToken,
                 gapiToken, googleStored, googleExpired, gPc, gResolved,
                 gTimer, listedWith, tcCallback>>
  /\ UNCHANGED <<durationVars, missingGoogleEnv, gapiPresent, calendars, sPc, sInput,
                 codeFromInput, calCount, calIdx, searched, evLog, evDone, sResult>>
  /\ UNCHANGED nonSearchVars

\* doRequest('consent', ...): the request is made; when it throws
\* synchronously the promise is resolved
doRequestConsent(requests, via, throws) ==
  Append(requests,
         TokenRequest("consent", via, IF throws THEN "threw" ELSE "pending",
                      requests[1].status))

\* the promise executor of ensureGoogleAuth with a token client: the silent
\* request, the consent request of its catch block, and the timer
requestToken_consentFirst(silentThrows, consentThrows) ==
  LET first == <<TokenRequest("consent", "start",
                              IF silentThrows THEN "threw" ELSE "pending", "none")>>
  IN /\ gRequests' = first
     /\ gResolved' = silentThrows
     /\ gTimer' = "armed"
     /\ gPc' = IF silentThrows THEN "returned" ELSE "waiting"
     /\ tcCallback' = tcCallback + 1

requestToken(silentThrows, consentThrows) ==
  LET silent == <<TokenRequest("", "start",
                               IF silentThrows THEN "threw" ELSE "pending", "none")>>
      all == IF silentThrows THEN doRequestConsent(silent, "catch", consentThrows)
             ELSE silent
      done == silentThrows /\ consentThrows
  IN /\ gRequests' = all
     /\ gResolved' = done
     /\ gTimer' = "armed"
     /\ gPc' = IF done THEN "returned" ELSE "waiting"
     \* every doRequest call assigns tc.callback before it requests
     /\ tcCallback' = tcCallback + Len(all)

\* ensureGoogleAuth() up to its await: the token in the gapi client or in
\* state is reused; else an unexpired stored token; else a token is requested
ensureGoogleAuth ==
  /\ gOther + Cardinality(PendingRequests) <= MaxOther
  /\ gOther' = gOther + Cardinality(PendingRequests)
  /\ IF Truthy(OrElse(gapiToken, googleAccessToken))
       THEN /\ gPc' = "returned"
            /\ gRequests' = <<>>
            /\ gTimer' = "none"
            /\ UNCHANGED <<googleAccessToken, gapiToken, gResolved, tcCallback>>
       ELSE IF Hydratable
         THEN /\ googleAccessToken' = googleStored
              /\ gapiToken' = IF gapiInited THEN googleStored ELSE gapiToken
              /\ gPc' = "returned"
              /\ gRequests' = <<>>
              /\ gTimer' = "none"
              /\ UNCHANGED <<gResolved, tcCallback>>
       ELSE IF ~tokenClient
         THEN /\ gPc' = "returned"
              /\ gRequests' = <<>>
              /\ gTimer' = "none"
              /\ UNCHANGED <<googleAccessToken, gapiToken, gResolved, tcCallback>>
       ELSE /\ tcCallback + 3 <= MaxWrappers
            /\ \E silentThrows, consentThrows \in BOOLEAN :
                 requestToken(silentThrows, consentThrows)
            /\ UNCHANGED <<googleAccessToken, gapiToken>>
  /\ UNCHANGED <<gapiInited, gisLoaded, tokenClient, googleStored,
                 googleExpired, listedWith, gFailed>>

\* the 800 ms timer fires: a consent request unless the promise is resolved
GraceTimer ==
  /\ gTimer = "armed"
  /\ gTimer' = "fired"
  /\ IF gResolved
       THEN UNCHANGED <<gRequests, gResolved, gPc, tcCallback>>
       ELSE \E throws \in BOOLEAN :
              /\ gRequests' = doRequestConsent(gRequests, "timer", throws)
              /\ gResolved' = throws
              /\ gPc' = IF throws /\ gPc = "waiting" THEN "returned" ELSE gPc
              /\ tcCallback' = tcCallback + 1
  /\ UNCHANGED <<gapiInited, gisLoaded, tokenClient, googleAccessToken,
                 gapiToken, googleStored, googleExpired, gOther, listedWith,
                 gFailed>>
  /\ UNCHANGED <<durationVars, missingGoogleEnv, gapiPresent, calendars, sPc, sInput,
                 codeFromInput, calCount, calIdx, searched, evLog, evDone, sResult>>
  /\ UNCHANGED nonSearchVars

\* no credential work has happened on this page load
GoogleBlank ==
  /\ gapiInited = FALSE
  /\ gisLoaded = FALSE
  /\ tokenClient = FALSE
  /\ googleAccessToken = Null
  /\ gapiToken = Null
  /\ googleStored = Null
  /\ googleExpired = FALSE
  /\ gPc = "idle"
  /\ gResolved = FALSE
  /\ gRequests = <<>>
  /\ gTimer = "none"
  /\ gOther = 0
  /\ listedWith = NoCredential
  /\ tcCallback = 0
  /\ gFailed = FALSE

\* the scripts have loaded and a token request was answered with a token
GoogleHeld ==
  /\ gapiInited = TRUE
  /\ gisLoaded = TRUE
  /\ tokenClient = TRUE
  /\ googleAccessToken = NewToken
  /\ gapiToken = NewToken
  /\ googleStored = NewToken
  /\ googleExpired = FALSE
  /\ gPc = "idle"
  /\ gResolved = FALSE
  /\ gRequests = <<>>
  /\ gTimer = "none"
  /\ gOther = 0
  /\ listedWith = NoCredential
  /\ tcCallback = 0
  /\ gFailed = FALSE

\* the credential state of a page whose scripts have done their work
GoogleSettled ==
  IF gapiPresent /\ ~missingGoogleEnv THEN GoogleHeld ELSE GoogleBlank

\* searchMeetByCode(inputCode) up to its first await
searchMeetByCode(inputCode) ==
  /\ sPc = "idle"
  /\ sInput' = inputCode
  /\ IF missingGoogleEnv \/ ~gapiPresent
       THEN /\ sPc' = "threw"
            /\ UNCHANGED googleVars
       ELSE /\ sPc' = "ensureGoogleAuth"
            /\ ensureGoogleAuth
  /\ codeFromInput' = Null
  /\ calCount' = 0
  /\ calIdx' = 0
  /\ searched' = <<>>
  /\ evLog' = <<>>
  /\ evDone' = <<>>
  /\ sResult' = Null
  /\ UNCHANGED <<durationVars, missingGoogleEnv, gapiPresent, calendars>>

\* a caller outside the model starts a search
searchStart(inputs) ==
  /\ \E inputCode \in inputs : searchMeetByCode(inputCode)
  /\ UNCHANGED nonSearchVars

\* await ensureGoogleAuth() returns (its value is not used); the input is
\* normalized and calendarList.list is requested
searchNormalize ==
  /\ sPc = "ensureGoogleAuth"
  /\ gPc = "returned"
  /\ gPc' = "idle"
  /\ codeFromInput' = normalize(sInput)
  /\ IF gapiInited
       THEN /\ sPc' = "calendarList"
            /\ listedWith' = [sent |-> TRUE, tok |-> gapiToken,
                              expired |-> PastExpiry(gapiToken)]
       ELSE \* gapi.client.calendar is undefined: a TypeError
            /\ sPc' = "threw"
            /\ UNCHANGED listedWith
  /\ UNCHANGED <<gapiInited, gisLoaded, tokenClient, googleAccessToken,
                 gapiToken, googleStored, googleExpired, gResolved, gRequests,
                 gTimer, gOther>>
  /\ UNCHANGED <<durationVars, missingGoogleEnv, gapiPresent, calendars, sInput, calCount,
                 calIdx, searched, evLog, evDone, sResult>>
  /\ UNCHANGED callbackVars
  /\ UNCHANGED nonSearchVars

\* what the call does when the loop is over: filter and return
Finish(pairs, n) ==
  /\ sPc' = "done"
  /\ sResult' = searchResult(sInput, codeFromInput, pairs, n)

\* calendarList.list settles: it throws, or the loop starts with the first
\* events.list request (or the call returns when there is no calendar)
searchCalendarList ==
  /\ sPc = "calendarList"
  /\ \/ /\ sPc' = "threw"
        /\ UNCHANGED <<calCount, calIdx, evLog, sResult>>
     \/ /\ calCount' = Len(calendars)
        /\ IF Len(calendars) = 0
             THEN /\ Finish(searched, 0)
                  /\ UNCHANGED <<calIdx, evLog>>
             ELSE /\ sPc' = "events"
                  /\ calIdx' = 1
                  /\ evLog' = requestEvents(evLog, 1)
                  /\ UNCHANGED sResult
  /\ UNCHANGED <<durationVars, missingGoogleEnv, gapiPresent, calendars, sInput, codeFromInput,
                 searched, evDone, googleVars>>
  /\ UNCHANGED nonSearchVars

\* the events.list request of calendar calIdx settles: its items are pushed
\* (ok) or the calendar is skipped (it threw); then the next request is
\* issued, or the call filters and returns
searchEvents ==
  /\ sPc = "events"
  /\ \E ok \in BOOLEAN :
       LET items == IF ok THEN [i \in 1..Len(calendars[calIdx]) |-> 
                                  [calendar |-> calIdx, event |-> EventOf(calIdx, i)]]
                    ELSE <<>>
           pairs == push(searched, items)
       IN /\ searched' = pairs
          /\ evDone' = Append(evDone, [cal |-> calIdx, ok |-> ok])
          /\ IF calIdx < calCount
               THEN /\ calIdx' = calIdx + 1
                    /\ evLog' = requestEvents(evLog, calIdx + 1)
                    /\ UNCHANGED <<sPc, sResult>>
               ELSE /\ Finish(pairs, calCount)
                    /\ UNCHANGED <<calIdx, evLog>>
  /\ UNCHANGED <<durationVars, missingGoogleEnv, gapiPresent, calendars, sInput, codeFromInput,
                 calCount, googleVars>>
  /\ UNCHANGED nonSearchVars

\* the caller takes the call's outcome; the next call starts afresh
searchTaken ==
  /\ sPc \in {"done", "threw"}
  /\ sPc' = "idle"
  /\ sInput' = Null
  /\ codeFromInput' = Null
  /\ calCount' = 0
  /\ calIdx' = 0
  /\ searched' = <<>>
  /\ evLog' = <<>>
  /\ evDone' = <<>>
  /\ sResult' = Null
  /\ UNCHANGED <<durationVars, missingGoogleEnv, gapiPresent, calendars, googleVars>>

\* a caller outside the model takes the outcome
searchReturn ==
  /\ searchTaken
  /\ UNCHANGED nonSearchVars

\* ---------------------------------------------------------------------
\* MeetForm
\* ---------------------------------------------------------------------

\* ev?.hangoutLink || (entryPoints || []).find(ep => ep.uri)?.uri
firstMeetUrl(event) ==
  LET ep == event.entryPoints
      withUri == {i \in 1..Len(ep) : Truthy(ep[i])}
  IN IF Truthy(event.hangoutLink) THEN event.hangoutLink
     ELSE IF withUri = {} THEN Null
     ELSE ep[MinOf(withUri)]

\* what MeetForm keeps of the search's return value: whether there is a first
\* match, that event's Meet URL, and the normalized code
resultOf(json) ==
  [kind |-> "search",
   hasEvent |-> Len(json.matches) > 0,
   meetUrl |-> IF Len(json.matches) > 0
                 THEN firstMeetUrl(json.matches[1].event) ELSE Null,
   normalizedCode |-> json.normalizedCode]

\* the body of GET /meet/{code}, as the older revisions keep it
MeetJson(code) ==
  [kind |-> "json", hasEvent |-> FALSE, meetUrl |-> Null, normalizedCode |-> code]

\* the Meet code that onSubmit and onAnalyze read from the first match
meetCodeMatch(result) ==
  IF Truthy(result.meetUrl) THEN matchMeetCode(result.meetUrl) ELSE Null

\* hasMeetDetails: the Import button is rendered
hasMeetDetails == formResult.hasEvent /\ Truthy(formResult.meetUrl)

MissingEnvMessage == "Missing Google Client ID or API Key"

SearchFailed == "search failed"

\* the form is on screen: the older revisions have no tabs
FormShown == pageRev = "calendar" => activeTab = "meet"

\* fetchTranscript(meetCode) up to its await, with the token of the closure
\* that calls it
fetchTranscript(meetCode, tok) ==
  IF ~Truthy(tok)
    THEN /\ transcriptError' = "Authentication required for transcript"
         /\ lastCall' = Start("fetchTranscript", FALSE, FALSE,
                              "Authentication required for transcript")
         /\ UNCHANGED <<transcriptLoading, inflight, fetches>>
    ELSE /\ transcriptLoading' = TRUE
         /\ transcriptError' = Null
         /\ Issue("fetchTranscript", meetCode)
         /\ lastCall' = Start("fetchTranscript", TRUE, TRUE, Null)

\* if (missingGoogleEnv) in onSubmit: the prop Page passes to MeetForm
configMissing_unchecked == FALSE

configMissing == missingGoogleEnv

\* the submit button: disabled={loading || !code}
submitDisabled_emptyOnly(code) == ~Truthy(code)

submitDisabled(code) == formLoading \/ ~Truthy(code)

\* the form is submitted with the text of its input field
onSubmit(code) ==
  /\ Ready
  /\ FormShown
  /\ ~submitDisabled(code)
  /\ submitTok' = token
  /\ \/ /\ pageRev = "basic"
        \* no token check: the header is left out when there is no token
        /\ formLoading' = TRUE
        /\ formErr' = Null
        /\ formResult' = NoResult
        /\ Issue("onSubmit", code)
        /\ lastCall' = Start("onSubmit", Truthy(token), TRUE, Null)
        /\ UNCHANGED <<searchVars, transcript, transcriptError, importResult, importError>>
     \/ /\ pageRev = "guarded"
        /\ IF ~Truthy(token)
             THEN /\ formErr' = "Please log in first"
                  /\ lastCall' = Start("onSubmit", FALSE, FALSE, "Please log in first")
                  /\ UNCHANGED <<formLoading, formResult, inflight, fetches>>
             ELSE /\ formLoading' = TRUE
                  /\ formErr' = Null
                  /\ formResult' = NoResult
                  /\ Issue("onSubmit", code)
                  /\ lastCall' = Start("onSubmit", TRUE, TRUE, Null)
        /\ UNCHANGED <<searchVars, transcript, transcriptError, importResult, importError>>
     \/ /\ pageRev = "calendar"
        /\ formResult' = NoResult
        /\ transcript' = Null
        /\ transcriptError' = Null
        /\ importResult' = Null
        /\ importError' = Null
        /\ IF configMissing
             THEN \* thrown and caught before onSearch is called
                  /\ formErr' = MissingEnvMessage
                  /\ formLoading' = FALSE
                  /\ UNCHANGED searchVars
             ELSE /\ formErr' = Null
                  /\ formLoading' = TRUE
                  /\ searchMeetByCode(code)
        /\ UNCHANGED <<inflight, fetches, lastCall>>
  /\ UNCHANGED <<authCore, page, activeTab, route, userVars, meetingsVars,
                 transcriptLoading, importLoading>>

\* onSubmit of the "calendar" revision after await onSearch(code): the error
\* is shown, or the result is kept and the transcript of the first match's
\* Meet code is requested
onSubmitSearched ==
  /\ Ready
  /\ pageRev = "calendar"
  /\ formLoading
  /\ searchTaken
  /\ IF sPc = "threw"
       THEN /\ formErr' = SearchFailed
            /\ formLoading' = FALSE
            /\ UNCHANGED <<formResult, transcriptLoading, transcriptError,
                           inflight, fetches, lastCall>>
       ELSE LET result == resultOf(sResult)
                m == meetCodeMatch(result)
            IN /\ formResult' = result
               /\ IF result.hasEvent /\ m # Null
                    THEN /\ fetchTranscript(m, submitTok)
                         \* await fetchTranscript(...) returns at once when
                         \* there is no token
                         /\ formLoading' = Truthy(submitTok)
                    ELSE /\ formLoading' = FALSE
                         /\ UNCHANGED <<transcriptLoading, transcriptError,
                                        inflight, fetches, lastCall>>
               /\ UNCHANGED formErr
  /\ UNCHANGED <<authCore, page, activeTab, route, userVars, meetingsVars,
                 submitTok, transcript, importResult, importLoading, importError>>

\* the continuation of fetchTranscript after await fetch, and then onSubmit's
\* finally
fetchTranscriptSettle ==
  /\ Ready
  /\ \E r \in Pending("fetchTranscript"), o \in Outcomes :
       LET notFound == o = "404"
           caught == ~notFound /\ o # "200"
           msg == IF o = "neterr" THEN NetError
                  ELSE IF notFound THEN "No transcript found for this meeting"
                  ELSE IF ~Ok(o) THEN "Failed to fetch transcript"
                  ELSE JsonError
           failed == caught \/ notFound
       IN /\ inflight' = inflight \ {r}
          /\ HandlerLogout(FALSE)
          /\ transcript' = IF failed THEN transcript ELSE r.arg
          /\ transcriptError' = IF failed THEN msg ELSE transcriptError
          /\ transcriptLoading' = FALSE
          /\ formLoading' = FALSE
          /\ lastCall' = Settled(r, o, FALSE, Cleared(FALSE),
                                 IF failed THEN msg ELSE Null)
  /\ UNCHANGED <<searchVars, page, activeTab, route, userVars, meetingsVars,
                 formResult, formErr, submitTok, importResult, importLoading,
                 importError>>

\* Import button: onAnalyze()
onAnalyze ==
  /\ Ready
  /\ FormShown
  /\ hasMeetDetails
  /\ ~importLoading
  /\ IF ~Truthy(token)
       THEN /\ importError' = "Authentication required for import"
            /\ lastCall' = Start("onAnalyze", FALSE, FALSE,
                                 "Authentication required for import")
            /\ UNCHANGED <<importLoading, importResult, inflight, fetches>>
       ELSE LET m == meetCodeMatch(formResult)
                meet_code == IF m # Null THEN m
                             ELSE OrElse(formResult.normalizedCode, EmptyStr)
            IN /\ importLoading' = TRUE
               /\ importError' = Null
               /\ importResult' = Null
               /\ Issue("onAnalyze", meet_code)
               /\ lastCall' = Start("onAnalyze", TRUE, TRUE, Null)
  /\ UNCHANGED <<authCore, searchVars, page, activeTab, route, userVars,
                 meetingsVars, formResult, formErr, formLoading, submitTok,
                 transcript, transcriptLoading, transcriptError>>

\* the continuation of onAnalyze after await fetch('/api/meetings', POST)
onAnalyzeSettle ==
  /\ Ready
  /\ \E r \in Pending("onAnalyze"), o \in Outcomes :
       LET caught == o # "200"
           msg == IF o = "neterr" THEN NetError
                  ELSE IF ~Ok(o) THEN OrElse(TextOf(o), "Failed to import meeting")
                  ELSE JsonError
       IN /\ inflight' = inflight \ {r}
          /\ HandlerLogout(FALSE)
          /\ importResult' = IF caught THEN importResult ELSE r.arg
          /\ importError' = IF caught THEN msg ELSE importError
          /\ importLoading' = FALSE
          /\ lastCall' = Settled(r, o, FALSE, Cleared(FALSE),
                                 IF caught THEN msg ELSE Null)
  /\ UNCHANGED <<searchVars, page, activeTab, route, userVars, meetingsVars,
                 formResult, formErr, formLoading, submitTok, transcript,
                 transcriptLoading, transcriptError>>

\* the continuation of the older revisions' onSubmit after
\* await fetch(`/api/meet/${code}`)
onSubmitSettle ==
  /\ Ready
  /\ \E r \in Pending("onSubmit"), o \in Outcomes :
       /\ inflight' = inflight \ {r}
       /\ HandlerLogout(FALSE)
       /\ formLoading' = FALSE
       /\ IF pageRev = "basic"
            THEN \* json = await res.json(); setResult(json), whatever the status
                 LET caught == o = "neterr" \/ ~HasJson(o)
                     msg == IF o = "neterr" THEN NetError ELSE JsonError
                 IN /\ formResult' = IF caught THEN formResult ELSE MeetJson(r.arg)
                    /\ formErr' = IF caught THEN msg ELSE formErr
                    /\ lastCall' = Settled(r, o, FALSE, Cleared(FALSE),
                                           IF caught THEN msg ELSE Null)
                    /\ UNCHANGED route
            ELSE \* 401: router.push('/login'); return, without logout()
                 LET pushed == o = "401"
                     caught == ~pushed /\ o # "200"
                     msg == IF o = "neterr" THEN NetError
                            ELSE IF ~Ok(o)
                              THEN (IF HasJson(o) THEN "detail" ELSE "Request failed")
                            ELSE JsonError
                 IN /\ route' = IF pushed THEN "/login" ELSE route
                    /\ formResult' = IF pushed \/ caught THEN formResult
                                     ELSE MeetJson(r.arg)
                    /\ formErr' = IF caught THEN msg ELSE formErr
                    /\ lastCall' = Settled(r, o, pushed, Cleared(FALSE),
                                           IF caught THEN msg ELSE Null)
  /\ UNCHANGED <<searchVars, page, activeTab, userVars, meetingsVars, submitTok,
                 transcript, transcriptLoading, transcriptError, importResult,
                 importLoading, importError>>

\* ---------------------------------------------------------------------
\* Durations on screen (MeetForm durationStr, Page.formatDurationMinutes)
\* ---------------------------------------------------------------------

\* what new Date(startISO) gives: no date at all (the field is missing), an
\* invalid date (getTime() is NaN), or a time in milliseconds
Missing == [kind |-> "missing", ms |-> 0]

Invalid == [kind |-> "invalid", ms |-> 0]

At(ms) == [kind |-> "date", ms |-> ms]

\* the times of the modelled events: around half a minute, around an hour,
\* an hour and a half, a day
Millis == {0, 29999, 30000, 59999, 90000, 3570000, 3600000, 5430000, 86400000}

Instants == {Missing, Invalid} \cup {At(ms) : ms \in Millis}

\* Math.round(x / 60000) for an integer x: the nearest integer, halves up
roundMinutes(x) == (x + 30000) \div 60000

Max(a, b) == IF a >= b THEN a ELSE b

\* `${h}h ${m}m` when h > 0, else `${m}m`
hm(mins) ==
  LET h == mins \div 60
      m == mins % 60
  IN IF h > 0 THEN ToString(h) \o "h " \o ToString(m) \o "m"
     ELSE ToString(m) \o "m"

\* the durationStr closure of MeetForm
formatDuration_signed(start, end) ==
  IF start.kind = "missing" \/ end.kind = "missing" THEN "N/A"
  ELSE IF start.kind = "invalid" \/ end.kind = "invalid" THEN "N/A"
  ELSE LET mins == roundMinutes(end.ms - start.ms)
       IN IF mins < 0 THEN "-" \o hm(0 - mins) ELSE hm(mins)

formatDuration(start, end) ==
  IF start.kind = "missing" \/ end.kind = "missing" THEN "N/A"
  ELSE IF start.kind = "invalid" \/ end.kind = "invalid" THEN "N/A"
  ELSE hm(Max(0, roundMinutes(end.ms - start.ms)))

\* what Number(val) gives for the duration field of a meeting row: NaN, or
\* a number of minutes
NotANumber == [kind |-> "nan", n |-> 0]

Minutes(n) == [kind |-> "number", n |-> n]

RowDurations == {NotANumber} \cup {Minutes(n) : n \in {-5, 0, 1, 59, 60, 61, 125}}

\* normalizeToMinutes(val), with Null for null
normalizeToMinutes(val) ==
  IF val.kind = "nan" \/ val.n <= 0 THEN Null
  ELSE ToString(Max(1, val.n))

\* formatDurationMinutes(val)
formatDurationMinutes(val) ==
  IF normalizeToMinutes(val) = Null THEN "-"
  ELSE hm(Max(1, val.n))

\* MeetForm renders the first match of a result: an event with these times
renderEvent ==
  /\ \E start, end \in Instants :
       /\ evStart' = start
       /\ evEnd' = end
       /\ durationStr' = formatDuration(start, end)
  /\ UNCHANGED <<rowDuration, rowDurationText>>
  /\ UNCHANGED <<missingGoogleEnv, gapiPresent, calendars, sPc, sInput,
                 codeFromInput, calCount, calIdx, searched, evLog, evDone,
                 sResult, googleVars>>
  /\ UNCHANGED nonSearchVars

\* Page renders a meeting row with formatDurationMinutes
renderRow ==
  /\ \E val \in RowDurations :
       /\ rowDuration' = val
       /\ rowDurationText' = formatDurationMinutes(val)
  /\ UNCHANGED <<evStart, evEnd, durationStr>>
  /\ UNCHANGED <<missingGoogleEnv, gapiPresent, calendars, sPc, sInput,
                 codeFromInput, calCount, calIdx, searched, evLog, evDone,
                 sResult, googleVars>>
  /\ UNCHANGED nonSearchVars

\* no event and no meeting row is on screen
NothingRendered ==
  /\ evStart = Missing
  /\ evEnd = Missing
  /\ durationStr = Null
  /\ rowDuration = NotANumber
  /\ rowDurationText = Null

\* no search is running
SearchQuiet ==
  /\ NothingRendered
  /\ sPc = "idle"
  /\ sInput = Null
  /\ codeFromInput = Null
  /\ calCount = 0
  /\ calIdx = 0
  /\ searched = <<>>
  /\ evLog = <<>>
  /\ evDone = <<>>
  /\ sResult = Null

\* a page on which the token provider has nothing to do
AuthQuiet ==
  /\ providerRev = "listen"
  /\ pageRev = "calendar"
  /\ token = Null
  /\ sessionStorage = [k \in {TOKEN_KEY} |-> Null]
  /\ url = [code |-> Null, hash |-> NoHash]
  /\ loadUrl = url
  /\ mounted = FALSE
  /\ effectDue = FALSE
  /\ extractions = 0
  /\ href = "app"
  /\ thrown = Null
  /\ fetches = {}
  /\ lastOp = NoOp
  /\ loadedAfter = NoOp
  /\ PageAbsent

\* the search over every account, with typed inputs
SearchInit ==
  /\ AuthQuiet
  /\ SearchQuiet
  /\ missingGoogleEnv \in BOOLEAN
  /\ gapiPresent \in BOOLEAN
  /\ GoogleSettled
  /\ calendars \in Accounts

SearchNext ==
  \/ searchStart(TypedInputs)
  \/ searchNormalize
  \/ searchCalendarList
  \/ searchEvents
  \/ searchReturn

SpecSearch == SearchInit /\ [][SearchNext]_vars

\* the search on one account, with assembled inputs
NormInit ==
  /\ AuthQuiet
  /\ SearchQuiet
  /\ missingGoogleEnv = FALSE
  /\ gapiPresent = TRUE
  /\ GoogleSettled
  /\ calendars = << <<EvPlain>> >>

NormNext ==
  \/ searchStart(AssembledInputs)
  \/ searchNormalize
  \/ searchCalendarList
  \/ searchEvents
  \/ searchReturn

SpecNormalize == NormInit /\ [][NormNext]_vars

\* the credential on a fresh page load: nothing is loaded yet; a token of an
\* earlier page load may be in sessionStorage, expired or not
GoogleInit ==
  /\ AuthQuiet
  /\ SearchQuiet
  /\ missingGoogleEnv = FALSE
  /\ gapiPresent = FALSE
  /\ calendars = << <<EvPlain>> >>
  /\ gapiInited = FALSE
  /\ gisLoaded = FALSE
  /\ tokenClient = FALSE
  /\ googleAccessToken = Null
  /\ gapiToken = Null
  /\ googleStored \in {Null, OldToken}
  /\ googleExpired \in {e \in BOOLEAN : e => googleStored = OldToken}
  /\ gPc = "idle"
  /\ gResolved = FALSE
  /\ gRequests = <<>>
  /\ gTimer = "none"
  /\ gOther = 0
  /\ listedWith = NoCredential
  /\ tcCallback = 0
  /\ gFailed = FALSE

GoogleNext ==
  \/ GapiLoaded
  \/ GapiInit
  \/ GisLoaded
  \/ Expire
  \/ signInGoogle
  \/ searchStart({"defg"})
  \/ GoogleAnswer
  \/ OtherAnswer
  \/ GoogleError
  \/ GraceTimer
  \/ searchNormalize
  \/ searchCalendarList
  \/ searchEvents
  \/ searchReturn

SpecGoogle == GoogleInit /\ [][GoogleNext]_vars

\* Google reports an outcome for every token request, through callback or
\* error_callback
TokenOutcome == GoogleAnswer \/ OtherAnswer \/ GoogleError

\* the same steps where what is scheduled does happen: a timer that is set
\* fires, and a token request gets its outcome
SpecGoogleLive ==
  /\ GoogleInit
  /\ [][GoogleNext]_vars
  /\ WF_vars(GraceTimer)
  /\ WF_vars(TokenOutcome)

\* the durations of every pair of event times and of every row value
DurationInit ==
  /\ AuthQuiet
  /\ SearchQuiet
  /\ missingGoogleEnv = FALSE
  /\ gapiPresent = TRUE
  /\ GoogleSettled
  /\ calendars = <<>>

DurationNext ==
  \/ renderEvent
  \/ renderRow

SpecDuration == DurationInit /\ [][DurationNext]_vars

\* ---------------------------------------------------------------------
\* Specifications
\* ---------------------------------------------------------------------

\* the provider before its first effect, on a page load from any URL
AuthStart ==
  /\ providerRev \in ProviderRevs
  /\ pageRev \in PageRevs
  /\ token = Null
  /\ sessionStorage \in [{TOKEN_KEY} -> {Null} \cup Tokens]
  /\ url \in Urls
  /\ loadUrl = url
  /\ mounted = FALSE
  /\ effectDue = FALSE
  /\ extractions = 0
  /\ href = "app"
  /\ thrown = Null
  /\ lastOp = NoOp
  /\ loadedAfter = NoOp

AuthInit ==
  /\ AuthStart
  /\ fetches = {}

\* the token lifecycle, on a page where no search runs
Init ==
  /\ AuthInit
  /\ PageAbsent
  /\ SearchQuiet
  /\ missingGoogleEnv = FALSE
  /\ gapiPresent = TRUE
  /\ GoogleSettled
  /\ calendars = <<>>

Next ==
  \/ Initialize
  \/ EffectRerun
  \/ \E t \in {Null} \cup Tokens : Set(t)
  \/ \E h \in Hashes : HashChange(h)
  \/ Logout
  \/ \E u \in Urls : PageLoad(u)

Spec == Init /\ [][Next]_vars

\* the provider together with the Page's user panel, from a page load
\* the fragments of the page loads and redirects with a Page: none, or a token
UserHashes == {NoHash, [access_token |-> "t2", id_token |-> Null, present |-> TRUE]}

UserInit ==
  /\ AuthStart
  /\ url.code = Null
  /\ url.hash \in UserHashes
  /\ PageMounted
  /\ SearchQuiet
  /\ missingGoogleEnv = FALSE
  /\ gapiPresent = TRUE
  /\ GoogleSettled
  /\ calendars = <<>>

UserNext ==
  \/ Initialize
  \/ EffectRerun
  \/ \E t \in {Null} \cup Tokens : Set(t)
  \/ \E h \in UserHashes : HashChange(h)
  \/ Logout
  \/ fetchUserEffect
  \/ autoLoadEffect
  \/ fetchUserClick
  \/ fetchUserSettle

SpecUser == UserInit /\ [][UserNext]_vars

\* a page that has come to rest on tab after a load from a clean URL: the
\* provider's effect and the Page's effects have run, and GET /user has
\* returned (the user for a token, the error's detail for the request that
\* the "basic" revision sends without one)
AtRest(tab) ==
  /\ providerRev \in ProviderRevs
  /\ pageRev \in PageRevs
  /\ token \in {Null, "t1"}
  /\ sessionStorage = [k \in {TOKEN_KEY} |-> token]
  /\ url = [code |-> Null, hash |-> NoHash]
  /\ loadUrl = url
  /\ mounted = TRUE
  /\ effectDue = FALSE
  /\ extractions = (IF providerRev = "listen" /\ token # Null THEN 2 ELSE 1)
  /\ href = "app"
  /\ thrown = Null
  /\ lastOp = Op("Initialize", Null)
  /\ loadedAfter = NoOp
  /\ page = "up"
  /\ activeTab = (IF pageRev = "calendar" THEN tab ELSE "user")
  /\ inflight = {}
  /\ route = "/"
  /\ userSeen = (IF pageRev = "basic" THEN Null ELSE token)
  /\ loading = FALSE
  /\ meetingsSeen = (IF pageRev = "calendar" THEN <<tab, token>> ELSE <<"user", Null>>)
  /\ MeetingsBlank
  /\ FormBlank
  /\ IF pageRev = "basic"
       THEN /\ fetches = {Endpoint["fetchUser"]}
            /\ data = ErrorJson
            /\ error = Null
            /\ lastCall = Settled(Sent("fetchUser", Null), "401", FALSE, token = Null, Null)
       ELSE IF token = Null
         THEN /\ fetches = {}
              /\ data = Null
              /\ error = NotAuthenticated
              /\ lastCall = Start("fetchUser", FALSE, FALSE, NotAuthenticated)
         ELSE /\ fetches = {Endpoint["fetchUser"]}
              /\ data = UserJson
              /\ error = Null
              /\ lastCall = Settled(Sent("fetchUser", token), "200", FALSE, FALSE, Null)

\* a signed-in page of the "calendar" revision
SignedIn ==
  /\ AtRest("user")
  /\ pageRev = "calendar"
  /\ token = "t1"

\* the meetings list of a signed-in page: loading, refreshing and deleting
MeetingsInit ==
  /\ SignedIn
  /\ SearchQuiet
  /\ missingGoogleEnv = FALSE
  /\ gapiPresent = TRUE
  /\ GoogleSettled
  /\ calendars = <<>>

MeetingsNext ==
  \/ \E tab \in {"user", "meet", "meetings"} : setActiveTab(tab)
  \/ autoLoadEffect
  \/ fetchMeetingsClick
  \/ fetchMeetingsSettle
  \/ \E m \in MeetingCodes, ok \in BOOLEAN : deleteMeetingClick(m, ok)
  \/ deleteMeetingSettle

SpecMeetings == MeetingsInit /\ [][MeetingsNext]_vars

\* the signed-in page after the meetings tab was opened and GET /meetings
\* returned both meetings
ListLoaded ==
  /\ providerRev \in ProviderRevs
  /\ pageRev = "calendar"
  /\ token = "t1"
  /\ sessionStorage = [k \in {TOKEN_KEY} |-> "t1"]
  /\ url = [code |-> Null, hash |-> NoHash]
  /\ loadUrl = url
  /\ mounted = TRUE
  /\ effectDue = FALSE
  /\ extractions = (IF providerRev = "listen" THEN 2 ELSE 1)
  /\ href = "app"
  /\ thrown = Null
  /\ fetches = {Endpoint["fetchUser"], Endpoint["fetchMeetings"]}
  /\ lastOp = Op("Initialize", Null)
  /\ loadedAfter = NoOp
  /\ page = "up"
  /\ activeTab = "meetings"
  /\ inflight = {}
  /\ route = "/"
  /\ lastCall = Settled(Sent("fetchMeetings", token), "200", FALSE, FALSE, Null)
  /\ userSeen = "t1"
  /\ data = UserJson
  /\ error = Null
  /\ loading = FALSE
  /\ meetingsSeen = <<"meetings", "t1">>
  /\ meetings = MeetingCodes
  /\ meetingsLoading = FALSE
  /\ meetingsError = Null
  /\ selectedMeetingCode = Null
  /\ meetingDetails = NoDetails
  /\ meetingDetailsLoading = FALSE
  /\ meetingDetailsError = Null
  /\ detailsAnalyzeLoading = FALSE
  /\ detailsAnalyzeError = Null
  /\ deletingCode = Null
  /\ deleteError = Null
  /\ FormBlank

\* the details panel of the meetings tab, with a consumer that may clear the
\* session token
DetailsInit ==
  /\ ListLoaded
  /\ SearchQuiet
  /\ missingGoogleEnv = FALSE
  /\ gapiPresent = TRUE
  /\ GoogleSettled
  /\ calendars = <<>>

DetailsNext ==
  \/ Set(Null)
  \/ EffectRerun
  \/ fetchUserEffect
  \/ autoLoadEffect
  \/ \E m \in MeetingCodes : fetchMeetingDetailsClick(m)
  \/ fetchMeetingDetailsSettle
  \/ analyzeSelectedMeeting
  \/ analyzeSettle
  \/ closeDetails

SpecDetails == DetailsInit /\ [][DetailsNext]_vars

\* the meetings tab with requests racing: the list is reloaded by switching
\* tabs while a row's details are loading
RaceInit == DetailsInit

RaceNext ==
  \/ \E tab \in {"user", "meetings"} : setActiveTab(tab)
  \/ autoLoadEffect
  \/ fetchMeetingsClick
  \/ fetchMeetingsSettle
  \/ \E m \in MeetingCodes : fetchMeetingDetailsClick(m)
  \/ fetchMeetingDetailsSettle

SpecRace == RaceInit /\ [][RaceNext]_vars

\* deleting rows of the loaded list while a row is selected
RemoveInit == DetailsInit

RemoveNext ==
  \/ \E m \in MeetingCodes : fetchMeetingDetailsClick(m)
  \/ fetchMeetingDetailsSettle
  \/ \E m \in MeetingCodes, ok \in BOOLEAN : deleteMeetingClick(m, ok)
  \/ deleteMeetingSettle

SpecRemove == RemoveInit /\ [][RemoveNext]_vars

\* the accounts and the inputs of the form
FormAccounts == { << <<EvLookup>> >>, << <<EvOther, EvPlain>> >> }

FormInputs == {"defg", "zzz"}

\* MeetForm on a page at rest, signed in or not
FormInit ==
  /\ AtRest("meet")
  /\ SearchQuiet
  /\ missingGoogleEnv \in BOOLEAN
  /\ gapiPresent = TRUE
  /\ GoogleSettled
  /\ calendars \in FormAccounts

FormNext ==
  \/ \E code \in FormInputs : onSubmit(code)
  \/ searchNormalize
  \/ searchCalendarList
  \/ searchEvents
  \/ onSubmitSearched
  \/ fetchTranscriptSettle
  \/ onAnalyze
  \/ onAnalyzeSettle
  \/ onSubmitSettle

SpecForm == FormInit /\ [][FormNext]_vars

\* ---------------------------------------------------------------------
\* Properties of the token lifecycle
\* ---------------------------------------------------------------------

\* the truthy token values a fragment carries
CarriedTokens(h) == {v \in {h.access_token, h.id_token} : Truthy(v)}

\* the page load started with / without a fragment token, and Initialize ran
InitializedWithFragment ==
  lastOp.op = "Initialize" /\ CarriedTokens(loadUrl.hash) # {}

InitializedPlain ==
  /\ lastOp.op = "Initialize"
  /\ loadUrl.code = Null
  /\ CarriedTokens(loadUrl.hash) = {}

\* C1: after Initialize on a URL with a fragment token and no code parameter,
\* the session token is a token carried by the fragment, sessionStorage holds
\* the same value under auth_token, and the visible URL has no fragment left,
\* whatever sessionStorage held before.
C1_FragmentAdopted ==
  (InitializedWithFragment /\ loadUrl.code = Null) =>
     /\ token \in CarriedTokens(loadUrl.hash)
     /\ sessionStorage[TOKEN_KEY] = token
     /\ url.hash = NoHash

\* a fragment token replaced a different persisted token
C1_Witness ==
  /\ InitializedWithFragment
  /\ loadUrl.code = Null
  /\ loadUrl.hash.id_token = "t1"
  /\ loadUrl.hash.access_token = Null
  /\ loadedAfter = Op("Set", "t2")
  /\ token = "t1"
  /\ sessionStorage[TOKEN_KEY] = "t1"

C3_ReloadRoundTrip ==
  InitializedPlain =>
     /\ (loadedAfter.op = "Set" /\ Truthy(loadedAfter.arg)) => token = loadedAfter.arg
     /\ (loadedAfter.op = "Set" /\ loadedAfter.arg = Null) => token = Null
     /\ sessionStorage[TOKEN_KEY] = Null => token = Null

C3_Witness ==
  /\ InitializedPlain
  /\ loadedAfter = Op("Set", "t1")
  /\ token = "t1"

\* C4: once Initialize has run, sessionStorage under auth_token holds exactly
\* the in-memory session token, and no entry when that token is null.
C4_Mirror ==
  mounted => sessionStorage[TOKEN_KEY] = token

\* C5: after Logout the in-memory token is null, nothing is persisted, and the
\* visible URL carries no auth fragment (the page has left for the identity
\* provider's logout page or its fragment has no token).
C5_LogoutClears ==
  lastOp.op = "Logout" =>
     /\ token = Null
     /\ sessionStorage[TOKEN_KEY] = Null
     /\ (href = LogoutHref \/ CarriedTokens(url.hash) = {})

\* C6: a logout() that is called when the session is already logged out
\* (token null before the call) does not throw and leaves the session logged
\* out, so a second call in a row changes nothing.
C6_LogoutIdempotent ==
  (lastOp.op = "Logout" /\ lastOp.arg = Null) =>
     /\ thrown = Null
     /\ token = Null
     /\ sessionStorage[TOKEN_KEY] = Null

\* ---------------------------------------------------------------------
\* Properties of the Page's backend calls
\* ---------------------------------------------------------------------

\* C7: whenever the continuation of a backend call has handled a 401
\* response, the session token and its persisted copy are cleared and the
\* continuation navigated to the login view exactly once and issued no
\* further request.
C7_UnauthorizedHandled ==
  (lastCall.phase = "settle" /\ lastCall.outcome = "401") =>
     /\ lastCall.cleared
     /\ lastCall.pushed
     /\ ~lastCall.issued

\* C8: whenever a backend call was invoked while the session token was
\* absent, the call issued no request and set an inline error message.
C8_MissingTokenShortCircuit ==
  (lastCall.phase = "start" /\ ~lastCall.hadToken) =>
     /\ ~lastCall.issued
     /\ Truthy(lastCall.inline)

\* ---------------------------------------------------------------------
\* Properties of the Meet-code search
\* ---------------------------------------------------------------------

\* the conference links of an event: hangoutLink and the entry points' uris
LinksOf(event) ==
  {event.hangoutLink} \cup {event.entryPoints[i] : i \in 1..Len(event.entryPoints)}

\* the Meet codes that can be extracted from an event
CodesOf(event) == {c \in {extractCode(u) : u \in LinksOf(event)} : c # Null}

\* the scanned events, and the returned ones, by their place in the account
ScannedIds == {searched[i].event.id : i \in 1..Len(searched)}

MatchedIds == {sResult.matches[i].event.id : i \in 1..Len(sResult.matches)}

ScannedEvent(id) ==
  (CHOOSE i \in 1..Len(searched) : searched[i].event.id = id) 

\* C9: when the search has returned, a scanned event is among the matches
\* exactly when one of the codes extracted from its hangoutLink or entry
\* points, which are in lower case, contains the normalized input as a
\* substring; an event without extractable code is not a match.
C9_MatchRule ==
  sPc = "done" =>
    \A id \in ScannedIds :
      LET ev == searched[ScannedEvent(id)].event
      IN /\ \A c \in CodesOf(ev) : c = toLowerCase(c)
         /\ id \in MatchedIds <=> \E c \in CodesOf(ev) : includes(c, codeFromInput)
         /\ CodesOf(ev) = {} => id \notin MatchedIds

\* input defg matched xyz-defg-hij, found on an entry point only, and
\* abc-defg-hij, and skipped an event without Meet link
C9_Witness ==
  /\ sPc = "done"
  /\ codeFromInput = "defg"
  /\ \E id \in MatchedIds :
       CodesOf(searched[ScannedEvent(id)].event) = {"xyz-defg-hij"}
  /\ \E id \in MatchedIds :
       CodesOf(searched[ScannedEvent(id)].event) = {"abc-defg-hij"}
  /\ \E id \in ScannedIds \ MatchedIds :
       CodesOf(searched[ScannedEvent(id)].event) = {}

\* the substrings of s of the canonical shape
ShapedIn(s) ==
  {SubSeq(s, pm[1], pm[1] + 7 + pm[2]) :
     pm \in {x \in (1..Len(s)) \X {3, 4} : ShapeAt(s, x[1], x[2])}}

\* C10: once the input is normalized, the code is a lower-cased substring of
\* the canonical shape if the input contains one, else the trimmed input
\* lower-cased; the returned normalizedCode is that code.
C10_Normalization ==
  /\ sPc \in {"calendarList", "events", "done"} =>
       IF ShapedIn(sInput) # {}
         THEN \E x \in ShapedIn(sInput) : codeFromInput = toLowerCase(x)
         ELSE codeFromInput = toLowerCase(trim(sInput))
  /\ sPc = "done" => sResult.normalizedCode = codeFromInput

\* a URL in a sentence is reduced to its code
C10_Witness ==
  /\ sPc = "done"
  /\ sInput = " Check https://meet.google.com/abc-DEFG-hij now "
  /\ sResult.normalizedCode = "abc-defg-hij"

\* ---------------------------------------------------------------------
\* Properties of the calendar loop
\* ---------------------------------------------------------------------

\* the calendars whose events.list request threw, and those that were read
FailedCals == {evDone[j].cal : j \in {i \in 1..Len(evDone) : ~evDone[i].ok}}

ReadCals == {evDone[j].cal : j \in {i \in 1..Len(evDone) : evDone[i].ok}}

\* the places <<calendar, position>> of the account's events in the
\* calendars that were read
ReadPlaces ==
  UNION {{<<k, i>> : i \in 1..Len(calendars[k])} : k \in ReadCals}

\* C11: when the event listing of one or more calendars threw, the search
\* does not throw; it returns exactly the matching events of the calendars
\* that could be read, and searchedCalendars is the number of enumerated
\* calendars, the failed ones included.
C11_Resilience ==
  FailedCals # {} =>
    /\ sPc # "threw"
    /\ sPc = "done" =>
         /\ MatchedIds =
              {pl \in ReadPlaces :
                 \E c \in CodesOf(calendars[pl[1]][pl[2]]) :
                    includes(c, normalize(sInput))}
         /\ sResult.searchedCalendars = Len(calendars)

\* the first calendar, which holds a match, could not be read; the match of
\* the second calendar is returned and both calendars are counted
C11_Witness ==
  /\ sPc = "done"
  /\ FailedCals = {1}
  /\ \E i \in 1..Len(calendars[1]) :
       \E c \in CodesOf(calendars[1][i]) : includes(c, codeFromInput)
  /\ MatchedIds # {}
  /\ sResult.searchedCalendars = 2

\* place a comes before place b: an earlier calendar, or the same calendar
\* and an earlier position of its listing
Precedes(a, b) == a[1] < b[1] \/ (a[1] = b[1] /\ a[2] < b[2])

\* C12: the returned matches are in discovery order: each match comes from
\* an earlier calendar than the next one, or from the same calendar and an
\* earlier position of its event listing; so none is duplicated or reordered.
C12_DiscoveryOrder ==
  sPc = "done" =>
    \A i, j \in 1..Len(sResult.matches) :
      i < j => Precedes(sResult.matches[i].event.id, sResult.matches[j].event.id)

\* two matches of the first calendar are followed by one of the second
C12_Witness ==
  /\ sPc = "done"
  /\ Len(sResult.matches) >= 3
  /\ sResult.matches[1].event.id[1] = 1
  /\ sResult.matches[2].event.id[1] = 1
  /\ sResult.matches[3].event.id[1] = 2

\* C13: during a search at most one events.list request is outstanding; the
\* requests are issued for the calendars in order, each after the previous
\* one has settled, and when the search returns exactly one request has
\* been issued, and has settled, for every enumerated calendar.
C13_Sequential ==
  /\ Len(evLog) - Len(evDone) \in {0, 1}
  /\ \A i \in 1..Len(evLog) : evLog[i] = i
  /\ \A i \in 1..Len(evDone) : evDone[i].cal = i
  /\ sPc = "events" => Len(evLog) = Len(evDone) + 1
  /\ sPc = "done" => /\ Len(evLog) = Len(calendars)
                     /\ Len(evDone) = Len(calendars)

\* the request for the second calendar is outstanding after the first one
\* failed
C13_Witness ==
  /\ sPc = "events"
  /\ evLog = <<1, 2>>
  /\ Len(evDone) = 1
  /\ ~evDone[1].ok

\* ---------------------------------------------------------------------
\* Properties of MeetForm and of the Google credential
\* ---------------------------------------------------------------------

\* no Google call has been made: no token request, no calendarList.list, no
\* events.list, and no search is under way
NoGoogleCall ==
  /\ sPc = "idle"
  /\ gRequests = <<>>
  /\ gOther = 0
  /\ ~listedWith.sent
  /\ evLog = <<>>

\* C14: with the Google client id or API key missing, a submit of the
\* calendar revision's MeetForm ends at once with the configuration error
\* in err and loading false, and issues no token request, no calendar
\* request and no backend request.
C14_ConfigErrorFirst ==
  /\ [](pageRev = "calendar" /\ missingGoogleEnv =>
          /\ NoGoogleCall
          /\ inflight = {}
          /\ ~formLoading
          /\ formErr \in {Null, MissingEnvMessage})
  /\ [][pageRev = "calendar" /\ missingGoogleEnv /\ formErr' # formErr =>
          /\ formErr' = MissingEnvMessage
          /\ UNCHANGED <<searchVars, inflight, fetches, lastCall>>]_vars

\* a submit without configuration has shown the configuration error
C14_Witness ==
  /\ pageRev = "calendar"
  /\ missingGoogleEnv
  /\ formErr = MissingEnvMessage
  /\ ~formLoading
  /\ NoGoogleCall

\* ensureGoogleAuth was called by the running search and found no token in
\* the gapi client or in state and no unexpired stored token
NoneHeld ==
  /\ sPc = "ensureGoogleAuth"
  /\ ~Truthy(gapiToken)
  /\ ~Truthy(googleAccessToken)

\* the consent requests of this run were each made after the silent request
\* threw, or by the timer while the silent request was unanswered
ConsentJustified ==
  \A i \in 2..Len(gRequests) :
    /\ gRequests[i].prompt = "consent"
    /\ \/ gRequests[i].silentWas = "threw"
       \/ /\ gRequests[i].via = "timer"
          /\ gRequests[i].silentWas \in {"pending", "failed"}
    /\ gRequests[i].silentWas # "answered"

C16_ValidCredentialAtList ==
  listedWith.sent =>
    /\ Truthy(listedWith.tok)
    /\ ~listedWith.expired

\* the fetchTranscript requests that a step issues
NewTranscriptFetches == {r \in inflight' \ inflight : r.op = "fetchTranscript"}

\* C17: when onSubmit of the calendar revision takes a search result with at
\* least one match, it keeps the result and calls fetchTranscript once, with
\* the meeting code that was submitted (compared in its normalized, lower
\* case form): one GET /fireflies/{code} request when there is a session
\* token, the authentication message when there is none; when the result
\* has no match, no transcript fetch is attempted.
C17_AutoTranscript ==
  [][(pageRev = "calendar" /\ formLoading /\ sPc = "done" /\ sPc' = "idle") =>
       IF Len(sResult.matches) > 0
         THEN /\ formResult' = resultOf(sResult)
              /\ IF Truthy(submitTok)
                   THEN \E r \in NewTranscriptFetches :
                          /\ NewTranscriptFetches = {r}
                          /\ toLowerCase(r.arg) = codeFromInput
                   ELSE /\ NewTranscriptFetches = {}
                        /\ transcriptError' = "Authentication required for transcript"
         ELSE /\ NewTranscriptFetches = {}
              /\ UNCHANGED <<transcriptError, transcriptLoading>>]_vars

\* ---------------------------------------------------------------------
\* Properties of the displayed duration
\* ---------------------------------------------------------------------

\* text is the claim's wording of mins whole minutes
IsDurationText(text, mins) ==
  \E h \in 0..24, m \in 0..59 :
    /\ h * 60 + m = mins
    /\ text = IF h > 0 THEN ToString(h) \o "h " \o ToString(m) \o "m"
              ELSE ToString(m) \o "m"

\* the whole numbers of minutes within half a minute of d milliseconds
NearestMinutes(d) ==
  {mins \in {d \div 60000, d \div 60000 + 1} :
     /\ mins * 60000 - d <= 30000
     /\ d - mins * 60000 <= 30000}

\* C18: for an event with start and end, the text shown is that of a whole
\* number mins >= 0 of minutes within half a minute of end - start (0 when
\* the end is before the start), as "<h>h <m>m" when h > 0 and "<m>m"
\* otherwise, with h * 60 + m = mins and 0 <= m < 60; when start or end is
\* missing the text is N/A.
C18_DurationText ==
  durationStr # Null =>
    IF evStart.kind = "missing" \/ evEnd.kind = "missing"
      THEN durationStr = "N/A"
      ELSE evStart.kind = "date" /\ evEnd.kind = "date" =>
             IF evEnd.ms < evStart.ms
               THEN IsDurationText(durationStr, 0)
               ELSE \E mins \in NearestMinutes(evEnd.ms - evStart.ms) :
                      IsDurationText(durationStr, mins)

\* an event of 59.5 minutes is shown as 1h 0m
C18_Witness ==
  /\ evStart = At(30000)
  /\ evEnd = At(3600000)
  /\ durationStr = "1h 0m"

\* C19: in every state in which MeetForm is on screen with loading true,
\* the form can be submitted again (and the submit resets the prior result,
\* error, transcript and import state).
C19_ResubmitWhileLoading ==
  (page = "up" /\ FormShown /\ formLoading) =>
    ENABLED (\E code \in FormInputs : onSubmit(code))

\* ---------------------------------------------------------------------
\* Properties of the backend operations' failures
\* ---------------------------------------------------------------------

BackendOps ==
  {"fetchUser", "fetchMeetings", "fetchMeetingDetails", "deleteMeeting",
   "fetchTranscript", "onAnalyze", "analyzeSelectedMeeting"}

\* the state an operation owns: its result, its loading flag, its error
OpState(op) ==
  CASE op = "fetchUser" -> <<data, loading, error>>
    [] op = "fetchMeetings" -> <<meetings, meetingsLoading, meetingsError>>
    [] op = "fetchMeetingDetails" ->
         <<selectedMeetingCode, meetingDetails, meetingDetailsLoading,
           meetingDetailsError>>
    [] op = "deleteMeeting" -> <<deletingCode, deleteError>>
    [] op = "fetchTranscript" -> <<transcript, transcriptLoading, transcriptError>>
    [] op = "onAnalyze" -> <<importResult, importLoading, importError>>
    [] op = "analyzeSelectedMeeting" -> <<detailsAnalyzeLoading, detailsAnalyzeError>>

OpError(op) ==
  CASE op = "fetchUser" -> error
    [] op = "fetchMeetings" -> meetingsError
    [] op = "fetchMeetingDetails" -> meetingDetailsError
    [] op = "deleteMeeting" -> deleteError
    [] op = "fetchTranscript" -> transcriptError
    [] op = "onAnalyze" -> importError
    [] op = "analyzeSelectedMeeting" -> detailsAnalyzeError

OpLoading(op) ==
  CASE op = "fetchUser" -> loading
    [] op = "fetchMeetings" -> meetingsLoading
    [] op = "fetchMeetingDetails" -> meetingDetailsLoading
    [] op = "deleteMeeting" -> deletingCode # Null
    [] op = "fetchTranscript" -> transcriptLoading
    [] op = "onAnalyze" -> importLoading
    [] op = "analyzeSelectedMeeting" -> detailsAnalyzeLoading

\* the step settles a request of a backend operation with a failure: a
\* status outside 2xx, a body that is no JSON, or a network error
FailedSettle ==
  /\ lastCall' # lastCall
  /\ lastCall'.phase = "settle"
  /\ lastCall'.op \in BackendOps
  /\ lastCall'.outcome \notin {"200", "204"}

\* the failure is one that the operation neither answers by leaving for the
\* login route (401) nor takes for success (deleteMeeting's 404)
PlainFailure ==
  /\ lastCall'.outcome # "401"
  /\ ~(lastCall'.op = "deleteMeeting" /\ lastCall'.outcome = "404")

JustSettled(op) == lastCall.phase = "settle" /\ lastCall.op = op

\* the data the response of the last step carried for the details panel
DetailsWritten ==
  IF lastCall.outcome = "200" THEN Details(lastCall.arg) ELSE NoDetails

\* a request leaves the set of requests in flight only through its own
\* continuation
NeverCancelled ==
  \A r \in inflight :
    r \notin inflight' =>
      /\ lastCall'.phase = "settle"
      /\ lastCall'.op = r.op
      /\ lastCall'.arg = r.arg

\* the data on display is the data of the response that has just arrived
ResponseWritten ==
  /\ JustSettled("fetchMeetingDetails") =>
       /\ meetingDetails = DetailsWritten
       /\ (lastCall.outcome # "200" => Truthy(meetingDetailsError))
  /\ JustSettled("fetchMeetings") =>
       /\ (meetings = NoList) <=> (lastCall.outcome # "200")
       /\ (lastCall.outcome # "200" => Truthy(meetingsError))

\* C21 (as the code has it): no request in flight is cancelled, and every
\* response of fetchMeetingDetails or fetchMeetings overwrites the data it
\* loads when it arrives, whichever requests were issued before or after it
\* and whichever are still in flight: the data is the body of a 200 response
\* and null after any other outcome, which also sets the error message. So
\* after two racing requests have settled the data is that of the response
\* that arrived last. A 200 response leaves the error message alone.
C21_LastWriteWins ==
  /\ []ResponseWritten
  /\ [][NeverCancelled]_vars

\* two details requests were in flight together and the response to the one
\* issued first arrived last: its record is shown while the selection is the
\* row clicked second
C21_Witness ==
  /\ JustSettled("fetchMeetingDetails")
  /\ lastCall.outcome = "200"
  /\ Pending("fetchMeetingDetails") = {}
  /\ Truthy(selectedMeetingCode)
  /\ lastCall.arg # selectedMeetingCode
  /\ meetingDetails = Details(lastCall.arg)

\* C21 (as stated): what is displayed after two racing requests have settled
\* is what the response that arrived last wrote: after a 200 response the
\* loaded data without an error message
C21_LastResponseShown ==
  /\ (JustSettled("fetchMeetingDetails") /\ lastCall.outcome = "200"
        /\ Pending("fetchMeetingDetails") = {}) =>
       /\ meetingDetails = DetailsWritten
       /\ meetingDetailsError = Null
  /\ (JustSettled("fetchMeetings") /\ lastCall.outcome = "200"
        /\ Pending("fetchMeetings") = {}) =>
       /\ meetings # NoList
       /\ meetingsError = Null

\* ---------------------------------------------------------------------
\* Properties of the provider's effect
\* ---------------------------------------------------------------------

\* C22: the token extraction (fragment check, then session-storage check)
\* runs once per page load: when the provider mounts, and not again on a token
\* change or a hashchange event of the same page load
C22_InitializeOnce ==
  /\ mounted => extractions = 1
  /\ ~mounted => extractions = 0

\* ---------------------------------------------------------------------
\* Properties of deleteMeeting
\* ---------------------------------------------------------------------

\* the continuation of the DELETE request r runs in this step
DeleteSettles(r) ==
  /\ r \in inflight
  /\ r.op = "deleteMeeting"
  /\ r \notin inflight'
  /\ lastCall'.phase = "settle"

\* meeting c is gone from the local list
NotListed(c, list) == list = NoList \/ c \notin list

\* C23: when the DELETE response for meeting c has status 204 or 404, c is
\* removed from the local list and, if c is the selected meeting, selection,
\* details and detail errors are cleared; after any other status but 401, or
\* a failed request, list and selection are unchanged and deleteError is set;
\* in every case deletingCode is null when the call has ended
C23_DeleteOutcome ==
  [][\A r \in inflight :
       DeleteSettles(r) =>
         /\ deletingCode' = Null
         /\ lastCall'.outcome \in {"204", "404"} =>
              /\ NotListed(r.arg, meetings')
              /\ selectedMeetingCode = r.arg =>
                   /\ selectedMeetingCode' = Null
                   /\ meetingDetails' = NoDetails
                   /\ meetingDetailsError' = Null
                   /\ detailsAnalyzeError' = Null
         /\ lastCall'.outcome \notin {"204", "404", "401"} =>
              /\ meetings' = meetings
              /\ selectedMeetingCode' = selectedMeetingCode
              /\ Truthy(deleteError')]_vars

\* the DELETE requests that have not settled
DeletesInFlight == {r \in inflight : r.op = "deleteMeeting"}

\* a deleteMeeting call of a signed-in user returns before its request: a
\* delete is running, or the user declined the confirmation
DeleteReturnsEarly ==
  /\ lastCall' # lastCall
  /\ lastCall' = Start("deleteMeeting", TRUE, FALSE, Null)

\* C24: at most one DELETE request is outstanding at any time, and a
\* deleteMeeting call that finds deletingCode set, or that the user declines
\* in the confirmation dialog, issues no request and changes no state
C24_SingleDelete ==
  /\ [](Cardinality(DeletesInFlight) <= 1)
  /\ [][DeleteReturnsEarly =>
         UNCHANGED <<authVars, searchVars, page, activeTab, inflight, route,
                     userVars, meetingsVars, formVars>>]_vars

\* a second row's Delete was clicked while a DELETE was outstanding, and
\* nothing was sent for it
C24_Witness ==
  /\ lastCall = Start("deleteMeeting", TRUE, FALSE, Null)
  /\ Truthy(deletingCode)
  /\ Cardinality(DeletesInFlight) = 1
  /\ \E r \in DeletesInFlight : r.arg = deletingCode
  /\ CanIssue

\* ---------------------------------------------------------------------
\* Properties of the details panel
\* ---------------------------------------------------------------------

\* no details request and no analysis is in flight
PanelQuiet ==
  /\ Pending("fetchMeetingDetails") = {}
  /\ Pending("analyzeSelectedMeeting") = {}

\* C25: whenever meetingDetails is non-null and no details or analysis
\* request is in flight, meetingDetails is the record of the meeting whose
\* code is selectedMeetingCode, and an analysis it carries is that meeting's
C25_DetailsMatchSelection ==
  (meetingDetails.present /\ PanelQuiet) =>
    /\ meetingDetails.meeting_code = selectedMeetingCode
    /\ meetingDetails.analysis \in {Null, selectedMeetingCode}

\* C26: once deleteMeeting(c) has completed with status 204 or 404, c is not
\* brought back into the local list by a request that was issued before the
\* delete completed: right after the completion every request in flight is
\* such a request, so no step taken from there lists c again
C26_DeletedStaysDeleted ==
  [][(JustSettled("deleteMeeting") /\ lastCall.outcome \in {"204", "404"}) =>
       NotListed(lastCall.arg, meetings')]_vars

\* ---------------------------------------------------------------------
\* Properties of the token client's callback
\* ---------------------------------------------------------------------

\* no ensureGoogleAuth call is waiting, and every token request that was made
\* has had its response delivered to the callback
AllDelivered ==
  /\ gPc # "waiting"
  /\ PendingRequests = {}
  /\ gOther = 0
  /\ ~gFailed

\* C27: once ensureGoogleAuth has finished and every token response it
\* requested has been delivered, the token client's callback field is again
\* the callback installed by initTokenClient, on every path
C27_CallbackRestored == AllDelivered => tcCallback = 0

\* C28: every call of ensureGoogleAuth eventually returns to its caller, also
\* when the token client reports a failure through error_callback only
C28_AcquisitionReturns == (gPc = "waiting") ~> (gPc # "waiting")

\* ---------------------------------------------------------------------
\* Properties of MeetForm's submit
\* ---------------------------------------------------------------------

\* a search started by the form has not been taken by onSubmit yet
SearchRunning == sPc # "idle" \/ Pending("onSubmit") # {}

\* the transcript requests that have not settled
TranscriptFetches == {r \in inflight : r.op = "fetchTranscript"}

C30_BlankMatchesNothing ==
  sPc = "done" =>
    /\ (Truthy(sInput) /\ sResult.normalizedCode = EmptyStr) =>
         sResult.matches = <<>>
    /\ \A i \in 1..Len(sResult.matches) :
         /\ sResult.normalizedCode # EmptyStr
         /\ isMatch(sResult.matches[i].event, sResult.normalizedCode)

====
